---- MODULE Spec2Model ----
(***************************************************************************)
(* A model of dynamic-skills: the transcript tracker (tracker.py), the     *)
(* observer loop (observer.py), the manager loop (agent.py) and the        *)
(* PID-file registry (skill.py).                                           *)
(*                                                                         *)
(* A transcript file is a sequence of characters.  A JSON record k is      *)
(* written as the two characters h(k) t(k) followed by a newline, so that  *)
(* a record can be on disk in part; a malformed line is the character x    *)
(* followed by a newline.  A byte offset is an index into the sequence.    *)
(***************************************************************************)
EXTENDS Integers, Sequences, FiniteSets, TLC

\* ------------------------------------------------------------------ bounds
MaxLines == 3        \* lines the transcript writer starts, over all files
MaxSummaryLen == 2   \* characters of an index summary the engine returns
MaxIndexSize == 3    \* Config.max_index_size, in bytes
MessageThreshold == 2  \* Config.message_threshold
AgentThreshold == 2  \* Config.agent_message_threshold
MaxRecords == 5      \* records the writer appends while a loop runs
MaxObserverRecords == 6  \* records the writer appends while the observer runs alone
MaxPids == 2         \* observer processes the manager can spawn
MaxBlocks == 2       \* blocks in the content list of a record
MaxResponseLen == 5  \* tokens of an engine response given to a parser
MaxDecisionLines == 4  \* lines of a decision response given to the parser
MaxStops == 3        \* calls of stop_observer with one pid
MaxEntries == 3      \* entries of a skills directory
MaxTextLen == 2      \* characters of a text given to write_index and write_details
MaxCounted == 3      \* sleeps and engine calls counted after a shutdown request
MaxNames == 2        \* names a decision lists under one of NEW, START and STOP
MaxMessages == 3     \* messages given to truncate_messages

\* ------------------------------------------------------------------ transcripts
TranscriptFiles == {"a.jsonl", "b.jsonl"}
SubConversationFiles == {"agent-c.jsonl"}
AllFiles == TranscriptFiles \cup SubConversationFiles
NoFile == "None"

NL == [c |-> "nl", id |-> 0, ty |-> "-"]
Junk == [c |-> "x", id |-> 0, ty |-> "-"]
HeadCh(k, ty) == [c |-> "h", id |-> k, ty |-> ty]
TailCh(k) == [c |-> "t", id |-> k, ty |-> "-"]
RecordTypes == {"user", "summary"}
Whitespace == {"nl"}

VARIABLES
    files,            \* transcript file name -> its characters
    mtimeOrder,       \* the existing transcript files, most recently modified first
    nextId,           \* the next record id the writer uses
    junkUsed,         \* malformed lines started so far
    current_file,     \* ConversationTracker.current_file
    file_position,    \* ConversationTracker.file_position
    initialized,      \* ConversationTracker.initialized
    skip_existing,    \* ConversationTracker.skip_existing
    startOff,         \* history: the offset set when current_file was last assigned
    epochReturned,    \* history: ids returned since current_file was last assigned
    returnedBefore,   \* history: ids returned before current_file was last assigned
    lastCall          \* history: what the latest update() did: none, skip, switch,
                      \* same, failed (open() raised)

VARIABLES
    o_pc,                 \* run_observer: where the observer is
    pending_messages,     \* run_observer: pending_messages (record ids)
    distill_count,        \* run_observer: distill_count
    shutdown_requested,   \* run_observer: shutdown_requested
    o_result,             \* run_observer: result.details while summarize_index runs
    skillDir,             \* the files of the skill directory: name -> text
    pidFiles,             \* the PID files of the skills root: skill name -> text
    reqPending,           \* history: pending was non-empty when shutdown was requested
    finalDistills,        \* history: distillations that ended after the shutdown request
    o_attempted,          \* history: a distillation was attempted in the current tick
    lastSummary,          \* history: the latest non-empty summary the engine returned
    lastDetails,          \* history: the details of the last successful distillation
    unsummarized,         \* history: details were written and no summary of them
                          \* has been requested
    writtenResources,     \* history: the names passed to write_resource so far
    submitted,            \* history: the batches submitted to the engine, oldest first
    o_req,                \* history: where the observer was when shutdown was requested,
                          \* the sleeps and the engine calls that ended since then
    inflight              \* history: the records appended while an engine call of
                          \* the loop was in flight

VARIABLES
    m_pc,                 \* run_agent: where the manager is
    m_pending,            \* run_agent: pending_messages (record ids)
    m_shutdown,           \* run_agent: shutdown_requested
    running,              \* run_agent: running, skill name -> pid
    existing_skills,      \* run_agent: existing_skills
    procs,                \* the processes: pid -> skill, state, owner
    nextPid,              \* the pid the next spawned process gets
    diskSkills,           \* the skills list_skills finds under the skills root
    m_attempted,          \* history: an evaluation was made in the current tick
    drain,                \* history: what the draining phase saw and did
    applied,              \* history: the calls of the Applying phase just done
    m_req                 \* history: as o_req, for the manager

VARIABLES
    call                  \* a function called on its own: its name, argument, result

fsVars == <<files, mtimeOrder, nextId, junkUsed>>

trkVars == <<current_file, file_position, initialized, skip_existing, startOff,
             epochReturned, returnedBefore, lastCall>>

trackerVars == <<fsVars, trkVars>>

obsLoop == <<o_pc, pending_messages, distill_count, shutdown_requested, o_result,
             skillDir, reqPending, finalDistills, o_attempted, lastSummary,
             lastDetails, unsummarized, writtenResources, o_req>>

obsVars == <<obsLoop, inflight>>

mgrVars == <<m_pc, m_pending, m_shutdown, running, existing_skills, procs, nextPid,
             diskSkills, m_attempted, drain, applied, m_req>>

vars == <<trackerVars, obsVars, mgrVars, pidFiles, submitted, call>>

Range(s) == {s[i] : i \in 1..Len(s)}

\* ------------------------------------------------------------------ tracker.py
RECURSIVE SplitLines(_)
\* `for line in f`: the lines with their terminator; a last line without one is
\* yielded as it stands
SplitLines(s) ==
    IF s = <<>> THEN <<>>
    ELSE IF \E i \in 1..Len(s) : s[i] = NL
         THEN LET i == CHOOSE j \in 1..Len(s) :
                           s[j] = NL /\ \A m \in 1..(j - 1) : s[m] # NL
              IN <<SubSeq(s, 1, i)>> \o SplitLines(SubSeq(s, i + 1, Len(s)))
         ELSE <<s>>

RECURSIVE Strip(_)
Strip(line) ==
    IF line = <<>> THEN <<>>
    ELSE IF line[1].c \in Whitespace THEN Strip(Tail(line))
    ELSE IF line[Len(line)].c \in Whitespace THEN Strip(SubSeq(line, 1, Len(line) - 1))
    ELSE line

\* json.loads: a line is a JSON document exactly when it is h(k) t(k)
JsonOk(line) ==
    /\ Len(line) = 2
    /\ line[1].c = "h"
    /\ line[2].c = "t"
    /\ line[1].id = line[2].id

\* A JSON record: type and role are strings ("absent": the key is missing), the
\* message is a dict or missing, its content is missing, a string (a text: a
\* sequence of tokens) or a list of blocks; a block is a dict with a type and
\* maybe a text, or something that is not a dict.
StrContent(text) == [kind |-> "str", text |-> text, blocks |-> <<>>]
ListContent(blocks) == [kind |-> "list", text |-> <<>>, blocks |-> blocks]
NoContent == [kind |-> "absent", text |-> <<>>, blocks |-> <<>>]
NoMessage == [present |-> FALSE, role |-> "absent", content |-> NoContent]

\* the record of line h(k) t(k): {"type": ty, "message": {"role": ty, "content": "k"}}
JsonLoads(line) ==
    [type |-> line[1].ty,
     message |-> [present |-> TRUE, role |-> line[1].ty,
                  content |-> StrContent(<<line[1].id>>)]]

\* every block of the list taken as text
IsAnyDict(block) == block.dict

\* line 48: isinstance(block, dict) and block.get("type") == "text"
IsTextBlock(block) == block.dict /\ block.type = "text"

\* line 49: block.get("text", "")
BlockText(block) == IF block.has_text THEN block.text ELSE <<>>

RECURSIVE JoinParts(_)
\* line 50: "\n".join(text_parts)
JoinParts(text_parts) ==
    IF text_parts = <<>> THEN <<>>
    ELSE IF Len(text_parts) = 1 THEN text_parts[1]
    ELSE text_parts[1] \o <<"\n">> \o JoinParts(Tail(text_parts))

\* lines 40-50: the content of the message, a list turned into a string
EntryContent(entry) ==
    LET content == IF entry.message.present THEN entry.message.content ELSE NoContent
    IN IF content.kind = "list"
       THEN LET blocks == SelectSeq(content.blocks, IsTextBlock)
            IN JoinParts([i \in 1..Len(blocks) |-> BlockText(blocks[i])])
       ELSE content.text

\* line 41: message.get("role", entry_type)
EntryRole(entry) ==
    IF entry.message.present /\ entry.message.role # "absent"
    THEN entry.message.role ELSE entry.type

\* parse_jsonl_entry: <<>> is None
parse_jsonl_entry(entry) ==
    IF entry.type \notin {"user", "assistant"} THEN <<>>
    ELSE IF EntryContent(entry) = <<>> THEN <<>>
    ELSE <<[role |-> EntryRole(entry), content |-> EntryContent(entry)]>>

RECURSIVE ReadLinesUntilError(_)
\* the loop left at the first line that json.loads rejects
ReadLinesUntilError(lines) ==
    IF lines = <<>> THEN <<>>
    ELSE LET line == Strip(lines[1])
         IN IF line # <<>> /\ ~JsonOk(line) THEN <<>>
            ELSE (IF line # <<>> THEN parse_jsonl_entry(JsonLoads(line)) ELSE <<>>)
                     \o ReadLinesUntilError(Tail(lines))

RECURSIVE ReadLines(_)
\* the loop body of read_messages_from_position over the lines read
ReadLines(lines) ==
    IF lines = <<>> THEN <<>>
    ELSE LET line == Strip(lines[1])
         IN (IF line # <<>> /\ JsonOk(line)
             THEN parse_jsonl_entry(JsonLoads(line))
             ELSE <<>>) \o ReadLines(Tail(lines))

FileExists(f) == f \in Range(mtimeOrder)

StSize(f) == Len(files[f])

\* the seek left out: the file is read from its start
SeekFromStart(f, last_position) == files[f]

\* f.seek(last_position), then everything up to the end of the file
SeekFrom(f, last_position) == SubSeq(files[f], last_position + 1, Len(files[f]))

read_messages_from_position(conv_file, last_position) ==
    IF ~FileExists(conv_file)
    THEN [messages |-> <<>>, new_position |-> last_position]
    ELSE [messages |-> ReadLines(SplitLines(SeekFrom(conv_file, last_position))),
          new_position |-> StSize(conv_file)]

\* f.stem.startswith("agent-")
IsSubConversation(f) == f \in SubConversationFiles

\* every *.jsonl file, sub-conversations included, most recent first
find_all_files == mtimeOrder

\* the transcript files that are not sub-conversations, sorted by modification
\* time, most recent first
find_conversation_files == SelectSeq(mtimeOrder, LAMBDA f : ~IsSubConversation(f))

\* the first observation reset to 0 like any other switch
SwitchPositionZero(most_recent) == 0

\* the offset update() sets when it assigns current_file
SwitchPosition(most_recent) ==
    IF skip_existing /\ ~initialized THEN StSize(most_recent) ELSE 0

\* the record ids of messages read from a transcript
Ids(msgs) == [i \in 1..Len(msgs) |-> msgs[i].content[1]]

\* what ConversationTracker.update returns in the current state
UpdateMessages ==
    LET conv_files == find_conversation_files IN
    IF conv_files = <<>> THEN <<>>
    ELSE LET most_recent == conv_files[1]
             switched == most_recent # current_file
         IN IF switched /\ skip_existing /\ ~initialized THEN <<>>
            ELSE read_messages_from_position(
                     most_recent,
                     IF switched THEN SwitchPosition(most_recent) ELSE file_position
                 ).messages

\* ConversationTracker.update: what it does to the tracker
Update ==
    LET conv_files == find_conversation_files IN
    IF conv_files = <<>>
    THEN UNCHANGED <<fsVars, trkVars>>
    ELSE
    LET most_recent == conv_files[1]
        switched == most_recent # current_file
        skip == switched /\ skip_existing /\ ~initialized
        pos == IF switched THEN SwitchPosition(most_recent) ELSE file_position
        rd == read_messages_from_position(most_recent, pos)
        msgs == UpdateMessages
    IN  /\ current_file' = most_recent
        /\ file_position' = IF skip THEN pos ELSE rd.new_position
        /\ initialized' = TRUE
        /\ startOff' = IF switched THEN pos ELSE startOff
        /\ epochReturned' = IF switched THEN Ids(msgs) ELSE epochReturned \o Ids(msgs)
        /\ returnedBefore' = IF switched THEN returnedBefore \cup Range(epochReturned)
                             ELSE returnedBefore
        /\ lastCall' = IF skip THEN "skip" ELSE IF switched THEN "switch" ELSE "same"
        /\ UNCHANGED <<fsVars, skip_existing>>

\* the offset lost when the read fails
FailedReadPositionZero(last_position) == 0

\* lines 81-83: except (FileNotFoundError, PermissionError): return [], last_position
FailedReadPosition(last_position) == last_position

\* ConversationTracker.update when open() raises FileNotFoundError or
\* PermissionError: the file was listed but is gone or may not be read
UpdateOpenFails ==
    LET conv_files == find_conversation_files IN
    /\ conv_files # <<>>
    /\ LET most_recent == conv_files[1]
           switched == most_recent # current_file
           pos == IF switched THEN SwitchPosition(most_recent) ELSE file_position
       IN  /\ ~(switched /\ skip_existing /\ ~initialized)
           /\ current_file' = most_recent
           /\ file_position' = FailedReadPosition(pos)
           /\ initialized' = TRUE
           /\ startOff' = IF switched THEN pos ELSE startOff
           /\ epochReturned' = IF switched THEN <<>> ELSE epochReturned
           /\ returnedBefore' = IF switched THEN returnedBefore \cup Range(epochReturned)
                                ELSE returnedBefore
           /\ lastCall' = "failed"
           /\ UNCHANGED <<fsVars, skip_existing>>

\* ------------------------------------------------------------------ the transcript writer
Touch(f) == <<f>> \o SelectSeq(mtimeOrder, LAMBDA g : g # f)

LinesStarted == (nextId - 1) + junkUsed

LastChar(f) == IF files[f] = <<>> THEN NL ELSE files[f][Len(files[f])]

AppendCh(f, ch) ==
    /\ files' = [files EXCEPT ![f] = Append(@, ch)]
    /\ mtimeOrder' = Touch(f)

\* the external tool starts writing record nextId to f: the first part of its line
AppendHead(f) ==
    /\ LastChar(f) = NL
    /\ LinesStarted < MaxLines
    /\ \E ty \in RecordTypes : AppendCh(f, HeadCh(nextId, ty))
    /\ nextId' = nextId + 1
    /\ UNCHANGED <<junkUsed, trkVars>>

\* ... the rest of the record
AppendTail(f) ==
    /\ LastChar(f).c = "h"
    /\ AppendCh(f, TailCh(LastChar(f).id))
    /\ UNCHANGED <<nextId, junkUsed, trkVars>>

\* ... a line that is not JSON
AppendJunk(f) ==
    /\ LastChar(f) = NL
    /\ LinesStarted < MaxLines
    /\ AppendCh(f, Junk)
    /\ junkUsed' = junkUsed + 1
    /\ UNCHANGED <<nextId, trkVars>>

\* ... the newline that ends the line
AppendNewline(f) ==
    /\ LastChar(f).c \in {"t", "x"}
    /\ AppendCh(f, NL)
    /\ UNCHANGED <<nextId, junkUsed, trkVars>>

\* the external tool writes a whole user record, newline included, in one
\* append, as long as fewer than max lines were started
AppendRecordUpTo(f, max) ==
    /\ LastChar(f) = NL
    /\ LinesStarted < max
    /\ files' = [files EXCEPT ![f] = @ \o <<HeadCh(nextId, "user"), TailCh(nextId), NL>>]
    /\ mtimeOrder' = Touch(f)
    /\ nextId' = nextId + 1
    /\ UNCHANGED <<junkUsed, trkVars>>

AppendRecord(f) == AppendRecordUpTo(f, MaxRecords)

\* ------------------------------------------------------------------ text
\* A text is a sequence of tokens: the characters " ", "\n", "a" (one byte) and
\* "E" (a three-byte character), and the words NEW_FILE:, NO_UPDATE and the file
\* names, which stand for their characters.
WhiteTokens == {" ", "\n"}

TokenBytes(t) ==
    CASE t \in {" ", "\n", "a"} -> 1
      [] t = "E" -> 3
      [] t = "ex.md" -> 5
      [] t = "index.md" -> 8
      [] t = "details.md" -> 10
      [] OTHER -> 9

RECURSIVE StripText(_)
\* str.strip()
StripText(t) ==
    IF t = <<>> THEN <<>>
    ELSE IF t[1] \in WhiteTokens THEN StripText(Tail(t))
    ELSE IF t[Len(t)] \in WhiteTokens THEN StripText(SubSeq(t, 1, Len(t) - 1))
    ELSE t

RECURSIVE SplitNewline(_)
\* str.split("\n"): at least one line, the newlines left out
SplitNewline(t) ==
    IF \E i \in 1..Len(t) : t[i] = "\n"
    THEN LET i == CHOOSE j \in 1..Len(t) : t[j] = "\n" /\ \A m \in 1..(j - 1) : t[m] # "\n"
         IN <<SubSeq(t, 1, i - 1)>> \o SplitNewline(SubSeq(t, i + 1, Len(t)))
    ELSE <<t>>

RECURSIVE JoinNewline(_)
\* "\n".join(lines)
JoinNewline(lines) ==
    IF lines = <<>> THEN <<>>
    ELSE IF Len(lines) = 1 THEN lines[1]
    ELSE lines[1] \o <<"\n">> \o JoinNewline(Tail(lines))

RECURSIVE Encode(_)
\* str.encode("utf-8"): one byte [t, k, n] for the k-th of the n bytes of token t
Encode(t) ==
    IF t = <<>> THEN <<>>
    ELSE [k \in 1..TokenBytes(t[1]) |-> [t |-> t[1], k |-> k, n |-> TokenBytes(t[1])]]
         \o Encode(Tail(t))

RECURSIVE DecodeIgnore(_)
\* bytes.decode("utf-8", errors="ignore"): complete characters are kept, the
\* bytes of an incomplete one are dropped
DecodeIgnore(b) ==
    IF b = <<>> THEN <<>>
    ELSE IF b[1].k = 1 /\ Len(b) >= b[1].n
              /\ \A k \in 1..b[1].n : b[k] = [t |-> b[1].t, k |-> k, n |-> b[1].n]
         THEN <<b[1].t>> \o DecodeIgnore(SubSeq(b, b[1].n + 1, Len(b)))
         ELSE DecodeIgnore(Tail(b))

ByteLen(t) == Len(Encode(t))

\* summarize_index from the engine's answer on: <<>> is None
SummarizeIndex(result, max_index_size) ==
    IF result = <<>> THEN <<>>
    ELSE LET stripped == StripText(result)
         IN IF ByteLen(stripped) > max_index_size
            THEN DecodeIgnore(SubSeq(Encode(stripped), 1, max_index_size))
            ELSE stripped

\* ------------------------------------------------------------------ observer.py
IndexName == <<"index.md">>
DetailsName == <<"details.md">>
NoResources == <<>>

IsMarker(line) == line # <<>> /\ line[1] = "NEW_FILE:"

\* line.replace("NEW_FILE:", "").strip()
MarkerFile(line) == StripText(SelectSeq(line, LAMBDA t : t # "NEW_FILE:"))

\* resource_files[current_file] = "\n".join(current_file_lines).strip()
SaveFile(acc) ==
    IF acc.current_file # <<>>
    THEN [n \in DOMAIN acc.resource_files \cup {acc.current_file} |->
             IF n = acc.current_file THEN StripText(JoinNewline(acc.current_file_lines))
             ELSE acc.resource_files[n]]
    ELSE acc.resource_files

RECURSIVE DistillLines(_, _)
\* the loop of parse_distill_response over the lines
DistillLines(lines, acc) ==
    IF lines = <<>> THEN acc
    ELSE LET line == lines[1] IN
         DistillLines(Tail(lines),
            IF IsMarker(line)
            THEN [acc EXCEPT !.resource_files = SaveFile(acc),
                             !.current_file = MarkerFile(line),
                             !.current_file_lines = <<>>]
            ELSE IF acc.current_file # <<>>
            THEN [acc EXCEPT !.current_file_lines = Append(@, line)]
            ELSE [acc EXCEPT !.main_content_lines = Append(@, line)])

\* DistillResult: details <<>> is None, resource_files with no name is None
parse_distill_response(response) ==
    IF response = <<>> \/ StripText(response) = <<"NO_UPDATE">>
    THEN [details |-> <<>>, resource_files |-> NoResources]
    ELSE LET acc == DistillLines(SplitNewline(response),
                        [resource_files |-> NoResources, current_file |-> <<>>,
                         current_file_lines |-> <<>>, main_content_lines |-> <<>>])
         IN [details |-> StripText(JoinNewline(acc.main_content_lines)),
             resource_files |-> SaveFile(acc)]

\* distill_details from the engine's answer on
distill_details(result) ==
    IF result = <<>> THEN [details |-> <<>>, resource_files |-> NoResources]
    ELSE parse_distill_response(StripText(result))

\* ------------------------------------------------------------------ skill.py
Put(dir, name, text) ==
    [n \in DOMAIN dir \cup {name} |-> IF n = name THEN text ELSE dir[n]]

Remove(dir, name) == [n \in DOMAIN dir \ {name} |-> dir[n]]

\* read_file: "" when the file is not there
ReadFile(dir, name) == IF name \in DOMAIN dir THEN dir[name] ELSE <<>>

\* SkillDir.write_details
write_details(dir, content) == Put(dir, DetailsName, content)

\* SkillDir.write_index
write_index(dir, content) == Put(dir, IndexName, content)

\* the skill of the observer, the skills root and SkillDir.base_dir, as the
\* components of their paths
ObserverSkill == "s1"
SkillsRoot == <<"project", "skills">>
base_dir == SkillsRoot \o <<ObserverSkill>>

\* the path a file name of a response stands for: is it absolute, and its
\* components
PathParts(token) ==
    CASE token = "../s2/details.md" ->
             [abs |-> FALSE, parts |-> <<"..", "s2", "details.md">>]
      [] token = "/x.md" -> [abs |-> TRUE, parts |-> <<"x.md">>]
      [] OTHER -> [abs |-> FALSE, parts |-> <<token>>]

RECURSIVE Resolve(_, _)
\* the file a path names: each ".." leaves the directory reached so far
Resolve(reached, parts) ==
    IF parts = <<>> THEN reached
    ELSE IF parts[1] = ".."
         THEN Resolve(SubSeq(reached, 1, Len(reached) - 1), Tail(parts))
         ELSE Resolve(Append(reached, parts[1]), Tail(parts))

\* SkillDir.resource_path: base_dir / name, where an absolute name replaces
\* base_dir; a file name of a response is one token
resource_path(name) ==
    LET p == PathParts(name[1])
    IN Resolve(IF p.abs THEN <<>> ELSE base_dir, p.parts)

\* the file is directly in base_dir
InBaseDir(path) == path # <<>> /\ SubSeq(path, 1, Len(path) - 1) = base_dir

\* SkillDir.write_resource, for every item of resource_files: the files that
\* land in base_dir, by their names there
write_resources(dir, resource_files) ==
    LET landed == {n \in DOMAIN resource_files : InBaseDir(resource_path(n))}
    IN [n \in DOMAIN dir \cup landed |->
           IF n \in landed THEN resource_files[n] ELSE dir[n]]

\* write_pid_file
write_pid_file(skill_name, pid) == Put(pidFiles, skill_name, <<pid>>)

\* an exit that leaves the PID file where it is
KeepPidFile(skill_name) == pidFiles

\* remove_pid_file
remove_pid_file(skill_name) == Remove(pidFiles, skill_name)

\* ------------------------------------------------------------------ the loops
\* the history of a shutdown request: none yet
NoRequest == [at |-> "none", sleeps |-> 0, calls |-> 0]

\* handle_shutdown ran while the loop was at pc
Requested(pc) == [at |-> pc, sleeps |-> 0, calls |-> 0]

\* a sleep ended
SleepEnded(req) ==
    IF req.at = "none" \/ req.sleeps >= MaxCounted THEN req
    ELSE [req EXCEPT !.sleeps = @ + 1]

\* an engine call ended, with an answer or with an exception
CallEnded(req) ==
    IF req.at = "none" \/ req.calls >= MaxCounted THEN req
    ELSE [req EXCEPT !.calls = @ + 1]

\* a loop that does not look at the flag
LoopForever(shutdown) == TRUE

\* while not shutdown_requested (observer.py line 257, agent.py line 273)
LoopCondition(shutdown) == ~shutdown

\* ------------------------------------------------------------------ run_observer
ObserverPid == 1

\* what the engine may answer to a distillation request
DistillResponses ==
    { <<>>,
      <<"NO_UPDATE">>,
      <<"a">>,
      <<"a", "\n", "NEW_FILE:", " ", "ex.md", "\n", "E">>,
      <<"a", "\n", "NEW_FILE:", " ", "details.md", "\n", "E">>,
      <<"a", "\n", "NEW_FILE:", " ", "index.md", "\n", "E", "E">>,
      <<"NEW_FILE:", " ", "ex.md", "\n", "a">>,
      <<"a", "\n", "NEW_FILE:", " ", "../s2/details.md", "\n", "E">>,
      <<"a", "\n", "NEW_FILE:", " ", "/x.md", "\n", "E">> }

SummaryTokens == {" ", "a", "E"}

\* what the engine may answer to a summarization request
SummaryResponses ==
    UNION {[1..n -> SummaryTokens] : n \in 0..MaxSummaryLen}

ObserverRuns == o_pc \notin {"off", "start", "exited"}

obsHist == <<lastSummary, lastDetails, unsummarized, writtenResources, inflight>>

\* lines 242-255: the PID file, the signal handlers
ObserverStartup ==
    /\ o_pc = "start"
    /\ pidFiles' = write_pid_file(ObserverSkill, ObserverPid)
    /\ o_pc' = "while"
    /\ UNCHANGED <<trackerVars, pending_messages, distill_count, shutdown_requested,
                   o_result, skillDir, reqPending, o_req, finalDistills, o_attempted,
                   obsHist, submitted>>

\* handle_shutdown: SIGTERM or SIGINT arrives
ObserverSignal ==
    /\ ObserverRuns
    /\ ~shutdown_requested
    /\ shutdown_requested' = TRUE
    /\ reqPending' = (pending_messages # <<>> /\ o_pc # "finally")
    /\ o_req' = Requested(o_pc)
    /\ UNCHANGED <<trackerVars, o_pc, pending_messages, distill_count, o_result,
                   skillDir, finalDistills, o_attempted, obsHist, pidFiles,
                   submitted>>

\* line 257: while not shutdown_requested
ObserverWhile ==
    /\ o_pc = "while"
    /\ o_pc' = IF LoopCondition(shutdown_requested) THEN "poll" ELSE "finally"
    /\ UNCHANGED <<trackerVars, pending_messages, distill_count, shutdown_requested,
                   o_result, skillDir, reqPending, o_req, finalDistills, o_attempted,
                   obsHist, pidFiles, submitted>>

\* a poll that keeps only the messages of the latest update
ExtendReplacing(pending, new_messages) == new_messages

\* observer.py line 264, agent.py line 279: pending_messages.extend(new_messages)
Extend(pending, new_messages) == pending \o new_messages

\* should_distill without lines 274-276
ShouldDistillAtThreshold(pending) == Len(pending) >= MessageThreshold

\* lines 273-278: should the pending messages be distilled now
ShouldDistill(pending) ==
    \/ Len(pending) >= MessageThreshold
    \/ (shutdown_requested /\ pending # <<>>)

\* lines 258-291: poll the tracker, decide, send the distillation request
ObserverPoll ==
    /\ o_pc = "poll"
    /\ Update
    /\ LET pending == Extend(pending_messages, Ids(UpdateMessages)) IN
       /\ pending_messages' = pending
       /\ IF ShouldDistill(pending) /\ pending # <<>>
          THEN /\ o_pc' = "distilling"
               /\ o_attempted' = TRUE
               /\ submitted' = Append(submitted, pending)
          ELSE /\ o_pc' = "check"
               /\ o_attempted' = FALSE
               /\ UNCHANGED submitted
    /\ UNCHANGED <<distill_count, shutdown_requested, o_result, skillDir, reqPending, o_req,
                   finalDistills, obsHist, pidFiles>>

\* line 309: is the index to be updated after this distillation
ShouldSummarize(count) == count % 3 = 0 \/ shutdown_requested

\* pending_messages after a distillation attempt that kept the batch when the
\* engine gave nothing usable
ClearPendingOnUpdate(pending, result) ==
    IF result.details # <<>> THEN <<>> ELSE pending

\* line 325: pending_messages.clear()
ClearPending(pending, result) == <<>>

\* lines 284-309 and 322-325: the engine answered the distillation request
ObserverDistilled(response) ==
    /\ o_pc = "distilling"
    /\ finalDistills' = IF shutdown_requested THEN finalDistills + 1 ELSE finalDistills
    /\ LET result == distill_details(response) IN
       IF result.details # <<>>
       THEN /\ skillDir' = write_resources(write_details(skillDir, result.details),
                                           result.resource_files)
            /\ lastDetails' = result.details
            /\ writtenResources' = writtenResources \cup DOMAIN result.resource_files
            /\ distill_count' = distill_count + 1
            /\ IF ShouldSummarize(distill_count + 1)
               THEN /\ o_pc' = "summarizing"
                    /\ o_result' = result.details
                    /\ unsummarized' = FALSE
                    /\ UNCHANGED pending_messages
               ELSE /\ o_pc' = "check"
                    /\ pending_messages' = ClearPending(pending_messages, result)
                    /\ unsummarized' = TRUE
                    /\ UNCHANGED o_result
       ELSE /\ o_pc' = "check"
            /\ pending_messages' = ClearPending(pending_messages, result)
            /\ UNCHANGED <<skillDir, distill_count, o_result, lastDetails, unsummarized,
                           writtenResources>>
    /\ o_req' = CallEnded(o_req)
    /\ UNCHANGED <<trackerVars, shutdown_requested, reqPending, o_attempted,
                   lastSummary, inflight, pidFiles, submitted>>

\* lines 311-325: the engine answered the summarization request
ObserverSummarized(response) ==
    /\ o_pc = "summarizing"
    /\ LET index_content == SummarizeIndex(response, MaxIndexSize) IN
       IF index_content # <<>>
       THEN /\ skillDir' = write_index(skillDir, index_content)
            /\ lastSummary' = response
       ELSE UNCHANGED <<skillDir, lastSummary>>
    /\ pending_messages' = <<>>
    /\ o_result' = <<>>
    /\ o_pc' = "check"
    /\ o_req' = CallEnded(o_req)
    /\ UNCHANGED <<trackerVars, distill_count, shutdown_requested, reqPending,
                   finalDistills, o_attempted, lastDetails, unsummarized,
                   writtenResources, inflight, pidFiles, submitted>>

\* lines 284 and 311: the engine call raises; the exception leaves the loop
ObserverEngineError ==
    /\ o_pc \in {"distilling", "summarizing"}
    /\ finalDistills' = IF shutdown_requested /\ o_pc = "distilling"
                        THEN finalDistills + 1 ELSE finalDistills
    /\ o_pc' = "finally"
    /\ o_req' = CallEnded(o_req)
    /\ UNCHANGED <<trackerVars, pending_messages, distill_count, shutdown_requested,
                   o_result, skillDir, reqPending, o_attempted, obsHist, pidFiles,
                   submitted>>

\* lines 327-328: if shutdown_requested: break
ObserverCheck ==
    /\ o_pc = "check"
    /\ o_pc' = IF shutdown_requested THEN "finally" ELSE "sleep"
    /\ UNCHANGED <<trackerVars, pending_messages, distill_count, shutdown_requested,
                   o_result, skillDir, reqPending, o_req, finalDistills, o_attempted,
                   obsHist, pidFiles, submitted>>

\* line 330: asyncio.sleep(poll_interval) returns
ObserverWake ==
    /\ o_pc = "sleep"
    /\ o_pc' = "while"
    /\ o_req' = SleepEnded(o_req)
    /\ UNCHANGED <<trackerVars, pending_messages, distill_count, shutdown_requested,
                   o_result, skillDir, reqPending, finalDistills, o_attempted,
                   obsHist, pidFiles, submitted>>

\* lines 334-336: finally: remove_pid_file
ObserverFinally ==
    /\ o_pc = "finally"
    /\ pidFiles' = remove_pid_file(ObserverSkill)
    /\ o_pc' = "exited"
    /\ UNCHANGED <<trackerVars, pending_messages, distill_count, shutdown_requested,
                   o_result, skillDir, reqPending, o_req, finalDistills, o_attempted,
                   obsHist, submitted>>

ObserverTranscripts == {"a.jsonl"}

ObserverOff ==
    /\ o_pc = "off"
    /\ pending_messages = <<>>
    /\ distill_count = 0
    /\ shutdown_requested = FALSE
    /\ o_result = <<>>
    /\ skillDir = <<>>
    /\ reqPending = FALSE
    /\ finalDistills = 0
    /\ o_attempted = FALSE
    /\ lastSummary = <<>>
    /\ lastDetails = <<>>
    /\ unsummarized = FALSE
    /\ inflight = {}
    /\ writtenResources = {}
    /\ o_req = NoRequest

NoCall == [fn |-> "none"]

\* ------------------------------------------------------------------ processes
Skills == {"s1", "s2"}

Alive(pid) == pid \in DOMAIN procs /\ procs[pid].st # "dead"

\* a live observer process that this manager spawned
IsObserver(pid) ==
    /\ pid \in DOMAIN procs
    /\ procs[pid].st \in {"spawned", "creating", "orphaned", "running", "stopping"}

\* os.kill on the process table ps: how the call ends
Kill(ps, pid) ==
    IF pid \notin DOMAIN ps \/ ps[pid].st = "dead" THEN "ProcessLookupError"
    ELSE IF ps[pid].owner # "me" THEN "PermissionError"
    ELSE "ok"

\* os.kill(pid, 0) and os.kill(pid, SIGTERM): how the call ends
KillOutcome(pid) == Kill(procs, pid)

\* int(pid_file.read_text().strip()) succeeds and os.kill(pid, 0) returns
EntryRuns(text) == text # <<>> /\ KillOutcome(text[1]) = "ok"

\* get_running_observers: the dict it returns
get_running_observers(pid_files) ==
    LET names == {n \in DOMAIN pid_files : EntryRuns(pid_files[n])}
    IN [n \in names |-> pid_files[n][1]]

\* get_running_observers: the PID files it leaves on disk
CleanPidFiles(pid_files) ==
    LET names == {n \in DOMAIN pid_files : EntryRuns(pid_files[n])}
    IN [n \in names |-> pid_files[n]]

\* the observers whose write_pid_file holds an open PID file that is unlinked:
\* what they write afterwards is not seen under the file's name
Orphan(ps, names) ==
    [pid \in DOMAIN ps |->
        IF ps[pid].st = "creating" /\ ps[pid].skill \in names
        THEN [ps[pid] EXCEPT !.st = "orphaned"]
        ELSE ps[pid]]

\* get_running_observers: what its unlink calls do to the processes
CleanProcs(pid_files, ps) ==
    Orphan(ps, {n \in DOMAIN pid_files : ~EntryRuns(pid_files[n])})

\* list_skills
list_skills == diskSkills

\* what a SIGTERM does to the processes: an observer with its handler installed
\* notes the request, a process without a handler dies, others are not reached
Deliver(ps, pid) ==
    IF pid \notin DOMAIN ps \/ ps[pid].owner # "me" THEN ps
    ELSE CASE ps[pid].st \in {"spawned", "creating", "orphaned"} ->
                  [ps EXCEPT ![pid].st = "dead"]
           [] ps[pid].st = "running" -> [ps EXCEPT ![pid].st = "stopping"]
           [] OTHER -> ps

\* start_observer and the bookkeeping of its result: w is the state of the
\* Applying phase, fails the skills whose launch fails
None == 0

\* start_observer: Popen raises for the skills of fails, and for every skill
\* once the pids are used up
LaunchFails(w, name, fails) == name \in fails \/ w.nextPid > MaxPids

\* start_observer that lets the exception of Popen reach the caller's pid
StartReturnsPidAnyway(w, name, fails) == w.nextPid

\* start_observer: the value returned: process.pid, or None at line 209
start_observer(w, name, fails) ==
    IF LaunchFails(w, name, fails) THEN None ELSE w.nextPid

\* start_observer with its result logged and not recorded in running
SpawnUnrecorded(w, name, fails, include_history) ==
    LET pid == start_observer(w, name, fails)
        launched == IF LaunchFails(w, name, fails) THEN w
                    ELSE [w EXCEPT !.procs = Put(@, w.nextPid,
                                       [skill |-> name, st |-> "spawned", owner |-> "me"]),
                                   !.nextPid = @ + 1]
    IN [launched EXCEPT !.calls = Append(@, [fn |-> "start_observer",
                                  name |-> name, failed |-> LaunchFails(w, name, fails),
                                  include_history |-> include_history, ret |-> pid])]

\* start_observer and the bookkeeping of its result (if pid: running[name] =
\* pid): w is the state of the Applying phase
Spawn(w, name, fails, include_history) ==
    LET pid == start_observer(w, name, fails)
        launched == IF LaunchFails(w, name, fails) THEN w
                    ELSE [w EXCEPT !.procs = Put(@, w.nextPid,
                                       [skill |-> name, st |-> "spawned", owner |-> "me"]),
                                   !.nextPid = @ + 1]
        called == [launched EXCEPT !.calls = Append(@, [fn |-> "start_observer",
                                  name |-> name, failed |-> LaunchFails(w, name, fails),
                                  include_history |-> include_history, ret |-> pid])]
    IN IF pid # None THEN [called EXCEPT !.running = Put(@, name, pid)] ELSE called

\* the body of the loop over the new skills without the test of line 303
NewSkillUnchecked(w, name, fails) == Spawn(w, name, fails, TRUE)

\* lines 301-309: start_observer(..., include_history=True) unless running
NewSkill(w, name, fails) ==
    IF name \notin DOMAIN w.running THEN Spawn(w, name, fails, TRUE) ELSE w

RECURSIVE ApplyNew(_, _, _)
\* lines 299-309
ApplyNew(new, w, fails) ==
    IF new = <<>> THEN w
    ELSE ApplyNew(Tail(new), NewSkill(w, new[1], fails), fails)

\* the body of the loop over the starts without the test of line 315
StartSkillUnknown(w, name, fails) ==
    IF name \in DOMAIN w.running THEN w ELSE Spawn(w, name, fails, FALSE)

\* lines 313-323: start_observer with include_history left at its default
StartSkill(w, name, fails) ==
    IF name \in DOMAIN w.running THEN w
    ELSE IF name \in w.existing_skills THEN Spawn(w, name, fails, FALSE)
    ELSE w

RECURSIVE ApplyStart(_, _, _)
\* lines 311-323
ApplyStart(start, w, fails) ==
    IF start = <<>> THEN w
    ELSE ApplyStart(Tail(start), StartSkill(w, start[1], fails), fails)

\* stop_observer with one handler for every exception
StopReturnOneHandler(outcome) == outcome = "ok"

\* stop_observer: the value returned after os.kill ended with the outcome:
\* line 217, line 220 (except ProcessLookupError), line 223 (except Exception)
StopReturn(outcome) ==
    IF outcome = "ok" THEN TRUE
    ELSE IF outcome = "ProcessLookupError" THEN TRUE
    ELSE FALSE

\* stop_observer
stop_observer(w, pid) ==
    [w EXCEPT !.procs = Deliver(@, pid), !.sent = Append(@, pid),
              !.calls = Append(@, [fn |-> "stop_observer", pid |-> pid,
                                   ret |-> StopReturn(Kill(w.procs, pid))])]

\* the body of the loop over the stops with the del under the call's result
StopSkillIfReported(w, name) ==
    IF name \in DOMAIN w.running
    THEN IF StopReturn(Kill(w.procs, w.running[name]))
         THEN [stop_observer(w, w.running[name]) EXCEPT !.running = Remove(@, name)]
         ELSE stop_observer(w, w.running[name])
    ELSE w

\* lines 326-330: stop_observer, its result dropped, then del running[name]
StopSkill(w, name) ==
    IF name \in DOMAIN w.running
    THEN [stop_observer(w, w.running[name]) EXCEPT !.running = Remove(@, name)]
    ELSE w

RECURSIVE ApplyStop(_, _)
\* lines 325-330
ApplyStop(stop, w) ==
    IF stop = <<>> THEN w
    ELSE ApplyStop(Tail(stop), StopSkill(w, stop[1]))

\* the three loops with the stops first
ApplyPhasesStopFirst(decision, fails, w) ==
    ApplyStart(decision.start,
               ApplyNew(decision.new, ApplyStop(decision.stop, w), fails),
               fails)

\* lines 299-330: the loop over the new skills, then the loop over the starts,
\* then the loop over the stops
ApplyPhases(decision, fails, w) ==
    ApplyStop(decision.stop,
              ApplyStart(decision.start, ApplyNew(decision.new, w, fails), fails))

\* lines 299-330: the Applying phase of the manager
Apply(decision, fails) ==
    ApplyPhases(decision, fails,
                [running |-> running, procs |-> procs, nextPid |-> nextPid,
                 existing_skills |-> existing_skills, sent |-> <<>>, calls |-> <<>>])

RECURSIVE StopAll(_, _, _)
\* lines 338-342: stop_observer for every item of the dict
StopAll(names, dict, w) ==
    IF names = {} THEN w
    ELSE LET n == CHOOSE x \in names : TRUE
         IN StopAll(names \ {n}, dict, stop_observer(w, dict[n]))

\* ------------------------------------------------------------------ run_agent
DecisionNames == {<<>>, <<"s1">>, <<"s2">>}

\* what evaluate_skills may return
Decisions == [new : DecisionNames, start : DecisionNames, stop : DecisionNames]

ManagerRuns == m_pc \notin {"off", "exited"}

\* lines 256-270: the first list_skills and get_running_observers, the handlers
ManagerStartup ==
    /\ m_pc = "start"
    /\ existing_skills' = list_skills
    /\ running' = get_running_observers(pidFiles)
    /\ pidFiles' = CleanPidFiles(pidFiles)
    /\ procs' = CleanProcs(pidFiles, procs)
    /\ m_pc' = "while"
    /\ UNCHANGED <<trackerVars, m_pending, m_shutdown, nextPid, diskSkills,
                   m_attempted, drain, applied, m_req, submitted>>

\* handle_shutdown: SIGTERM or SIGINT arrives
ManagerSignal ==
    /\ m_pc \notin {"off", "start", "exited"}
    /\ ~m_shutdown
    /\ m_shutdown' = TRUE
    /\ m_req' = Requested(m_pc)
    /\ UNCHANGED <<trackerVars, m_pc, m_pending, running, existing_skills, procs,
                   nextPid, diskSkills, m_attempted, drain, applied, pidFiles, submitted>>

\* line 273: while not shutdown_requested
ManagerWhile ==
    /\ m_pc = "while"
    /\ m_pc' = IF LoopCondition(m_shutdown) THEN "poll" ELSE "finally"
    /\ UNCHANGED <<trackerVars, m_pending, m_shutdown, running, existing_skills, procs,
                   nextPid, diskSkills, m_attempted, drain, applied, m_req, pidFiles, submitted>>

\* an evaluation only above the threshold
ShouldEvaluateAbove(pending) == Len(pending) > AgentThreshold

\* line 282: len(pending_messages) >= config.agent_message_threshold
ShouldEvaluate(pending) == Len(pending) >= AgentThreshold

\* lines 274-295: poll the tracker; at the threshold, list the skills and the
\* running observers and send the evaluation request
ManagerPoll ==
    /\ m_pc = "poll"
    /\ Update
    /\ LET pending == Extend(m_pending, Ids(UpdateMessages)) IN
       /\ m_pending' = pending
       /\ IF ShouldEvaluate(pending)
          THEN /\ existing_skills' = list_skills
               /\ running' = get_running_observers(pidFiles)
               /\ pidFiles' = CleanPidFiles(pidFiles)
               /\ procs' = CleanProcs(pidFiles, procs)
               /\ m_pc' = "evaluating"
               /\ m_attempted' = TRUE
               /\ submitted' = Append(submitted, pending)
          ELSE /\ m_pc' = "sleep"
               /\ m_attempted' = FALSE
               /\ UNCHANGED <<existing_skills, running, pidFiles, procs, submitted>>
    /\ UNCHANGED <<m_shutdown, nextPid, diskSkills, drain, applied, m_req>>

\* lines 297-332: the engine answered; the Applying phase; pending is cleared
ManagerEvaluated(decision, fails) ==
    /\ m_pc = "evaluating"
    /\ LET w == Apply(decision, fails) IN
       /\ running' = w.running
       /\ procs' = w.procs
       /\ nextPid' = w.nextPid
       /\ applied' = w.calls
    /\ m_req' = CallEnded(m_req)
    /\ m_pending' = <<>>
    /\ m_pc' = "sleep"
    /\ UNCHANGED <<trackerVars, m_shutdown, existing_skills, diskSkills, m_attempted,
                   drain, pidFiles, submitted>>

\* line 290: evaluate_skills raises; the exception leaves the loop
ManagerEngineError ==
    /\ m_pc = "evaluating"
    /\ m_pc' = "finally"
    /\ m_req' = CallEnded(m_req)
    /\ UNCHANGED <<trackerVars, m_pending, m_shutdown, running, existing_skills, procs,
                   nextPid, diskSkills, m_attempted, drain, applied, pidFiles, submitted>>

\* line 334: asyncio.sleep(agent_poll_interval) returns
ManagerWake ==
    /\ m_pc = "sleep"
    /\ m_pc' = "while"
    /\ applied' = <<>>
    /\ m_req' = SleepEnded(m_req)
    /\ UNCHANGED <<trackerVars, m_pending, m_shutdown, running, existing_skills, procs,
                   nextPid, diskSkills, m_attempted, drain, pidFiles, submitted>>

\* lines 338-343: finally: running = get_running_observers; stop each of them
ManagerFinally ==
    /\ m_pc = "finally"
    /\ LET found == get_running_observers(pidFiles)
           w == StopAll(DOMAIN found, found,
                        [running |-> found, procs |-> CleanProcs(pidFiles, procs),
                         nextPid |-> nextPid, sent |-> <<>>, calls |-> <<>>])
       IN /\ running' = found
          /\ pidFiles' = CleanPidFiles(pidFiles)
          /\ procs' = w.procs
          /\ drain' = [tracked |-> running,
                       alive |-> {pid \in DOMAIN procs : IsObserver(pid)},
                       sent |-> w.sent]
    /\ m_pc' = "exited"
    /\ UNCHANGED <<trackerVars, m_pending, m_shutdown, existing_skills, nextPid,
                   diskSkills, m_attempted, applied, m_req, submitted>>

\* ------------------------------------------------------------------ observer processes
\* write_pid_file, first half: open(pid_file, "w") creates or empties the file
ProcCreatePidFile(pid) ==
    /\ pid \in DOMAIN procs
    /\ procs[pid].st = "spawned"
    /\ pidFiles' = Put(pidFiles, procs[pid].skill, <<>>)
    /\ procs' = [procs EXCEPT ![pid].st = "creating"]
    /\ UNCHANGED <<trackerVars, m_pc, m_pending, m_shutdown, running, existing_skills,
                   nextPid, diskSkills, m_attempted, drain, applied, m_req, submitted>>

\* write_pid_file, second half: the pid is written; then the handlers are installed
ProcWritePidFile(pid) ==
    /\ pid \in DOMAIN procs
    /\ procs[pid].st \in {"creating", "orphaned"}
    /\ pidFiles' = IF procs[pid].st = "creating"
                   THEN write_pid_file(procs[pid].skill, pid)
                   ELSE pidFiles
    /\ procs' = [procs EXCEPT ![pid].st = "running"]
    /\ UNCHANGED <<trackerVars, m_pc, m_pending, m_shutdown, running, existing_skills,
                   nextPid, diskSkills, m_attempted, drain, applied, m_req, submitted>>

\* an observer distills for the first time: its skill directory appears
ProcDistills(pid) ==
    /\ pid \in DOMAIN procs
    /\ procs[pid].st \in {"running", "stopping"}
    /\ procs[pid].skill \notin diskSkills
    /\ diskSkills' = diskSkills \cup {procs[pid].skill}
    /\ UNCHANGED <<trackerVars, m_pc, m_pending, m_shutdown, running, existing_skills,
                   procs, nextPid, m_attempted, drain, applied, m_req, pidFiles, submitted>>

\* an observer that was asked to stop leaves its loop: finally: remove_pid_file
ProcExit(pid) ==
    /\ pid \in DOMAIN procs
    /\ procs[pid].st = "stopping"
    /\ pidFiles' = remove_pid_file(procs[pid].skill)
    /\ procs' = Orphan([procs EXCEPT ![pid].st = "dead"], {procs[pid].skill})
    /\ UNCHANGED <<trackerVars, m_pc, m_pending, m_shutdown, running, existing_skills,
                   nextPid, diskSkills, m_attempted, drain, applied, m_req, submitted>>

\* an observer is killed or crashes: nothing is cleaned up
ProcCrash(pid) ==
    /\ pid \in DOMAIN procs
    /\ IsObserver(pid)
    /\ procs' = [procs EXCEPT ![pid].st = "dead"]
    /\ UNCHANGED <<trackerVars, m_pc, m_pending, m_shutdown, running, existing_skills,
                   nextPid, diskSkills, m_attempted, drain, applied, m_req, pidFiles, submitted>>

\* the pid of a dead observer is given to an unrelated process of some user
PidReused(pid, owner) ==
    /\ pid \in DOMAIN procs
    /\ procs[pid].st = "dead"
    /\ procs' = [procs EXCEPT ![pid] = [skill |-> "-", st |-> "unrelated", owner |-> owner]]
    /\ UNCHANGED <<trackerVars, m_pc, m_pending, m_shutdown, running, existing_skills,
                   nextPid, diskSkills, m_attempted, drain, applied, m_req, pidFiles, submitted>>

ManagerOff ==
    /\ m_pc = "off"
    /\ m_pending = <<>>
    /\ m_shutdown = FALSE
    /\ running = <<>>
    /\ existing_skills = {}
    /\ procs = <<>>
    /\ nextPid = 1
    /\ diskSkills = {}
    /\ m_attempted = FALSE
    /\ drain = [tracked |-> <<>>, alive |-> {}, sent |-> <<>>]
    /\ applied = <<>>
    /\ m_req = NoRequest

TrackerInit ==
    /\ files = [f \in AllFiles |-> <<>>]
    /\ mtimeOrder = <<>>
    /\ nextId = 1
    /\ junkUsed = 0
    /\ current_file = NoFile
    /\ file_position = 0
    /\ initialized = FALSE
    /\ skip_existing \in BOOLEAN
    /\ startOff = 0
    /\ epochReturned = <<>>
    /\ returnedBefore = {}
    /\ lastCall = "none"

\* a tracker on its own, and a writer that appends character by character
TrackerOnlyInit ==
    /\ TrackerInit
    /\ ObserverOff
    /\ ManagerOff
    /\ pidFiles = <<>>
    /\ submitted = <<>>
    /\ call = NoCall

TrackerNext ==
    \/ Update /\ UNCHANGED <<obsVars, mgrVars, pidFiles, submitted, call>>
    \/ \E f \in TranscriptFiles :
          AppendHead(f) /\ UNCHANGED <<obsVars, mgrVars, pidFiles, submitted, call>>
    \/ \E f \in TranscriptFiles :
          AppendTail(f) /\ UNCHANGED <<obsVars, mgrVars, pidFiles, submitted, call>>
    \/ \E f \in TranscriptFiles :
          AppendJunk(f) /\ UNCHANGED <<obsVars, mgrVars, pidFiles, submitted, call>>
    \/ \E f \in TranscriptFiles :
          AppendNewline(f) /\ UNCHANGED <<obsVars, mgrVars, pidFiles, submitted, call>>

TrackerSpec == TrackerOnlyInit /\ [][TrackerNext]_vars

\* a tracker on its own whose reads can fail, and writers that append whole
\* records to transcripts and to sub-conversation files
FilesNext ==
    \/ Update /\ UNCHANGED <<obsVars, mgrVars, pidFiles, submitted, call>>
    \/ UpdateOpenFails /\ UNCHANGED <<obsVars, mgrVars, pidFiles, submitted, call>>
    \/ \E f \in AllFiles :
          AppendRecord(f) /\ UNCHANGED <<obsVars, mgrVars, pidFiles, submitted, call>>

FilesSpec == TrackerOnlyInit /\ [][FilesNext]_vars

\* ------------------------------------------------------------------ agent.py: parse_skill_decision
RECURSIVE SplitAt(_, _)
\* str.split(sep): at least one part, the separators left out
SplitAt(t, sep) ==
    IF \E i \in 1..Len(t) : t[i] = sep
    THEN LET i == CHOOSE j \in 1..Len(t) : t[j] = sep /\ \A m \in 1..(j - 1) : t[m] # sep
         IN <<SubSeq(t, 1, i - 1)>> \o SplitAt(SubSeq(t, i + 1, Len(t)), sep)
    ELSE <<t>>

\* line.replace(word, "")
ReplaceWord(line, word) == SelectSeq(line, LAMBDA t : t # word)

\* line.startswith(word)
StartsWith(line, word) == line # <<>> /\ line[1] = word

\* str.lower() of a token
LowerToken(t) == IF t \in {"None", "NONE"} THEN "none" ELSE t

\* the value compared as it is written
ValueIsLiteralNone(value) == value = <<"none">>

\* skills.lower() == "none"
ValueIsNone(value) == [i \in 1..Len(value) |-> LowerToken(value[i])] = <<"none">>

\* [s.strip() for s in skills.split(",") if s.strip()]
SkillNames(skills) ==
    LET parts == SplitAt(skills, ",")
        stripped == [i \in 1..Len(parts) |-> StripText(parts[i])]
    IN SelectSeq(stripped, LAMBDA n : n # <<>>)

\* lines 139-154: what one line does to the result
DecisionLine(result, raw) ==
    LET line == StripText(raw) IN
    IF StartsWith(line, "START:")
    THEN LET skills == StripText(ReplaceWord(line, "START:"))
         IN IF ValueIsNone(skills) THEN result
            ELSE [result EXCEPT !.start = SkillNames(skills)]
    ELSE IF StartsWith(line, "STOP:")
    THEN LET skills == StripText(ReplaceWord(line, "STOP:"))
         IN IF ValueIsNone(skills) THEN result
            ELSE [result EXCEPT !.stop = SkillNames(skills)]
    ELSE IF StartsWith(line, "NEW:")
    THEN LET new_skill == StripText(ReplaceWord(line, "NEW:"))
         IN IF ~ValueIsNone(new_skill) /\ (\E i \in 1..Len(new_skill) : new_skill[i] = ":")
            THEN LET i == CHOOSE j \in 1..Len(new_skill) :
                              new_skill[j] = ":" /\ \A m \in 1..(j - 1) : new_skill[m] # ":"
                 IN [result EXCEPT !.new = Append(@,
                        [name |-> StripText(SubSeq(new_skill, 1, i - 1)),
                         description |-> StripText(SubSeq(new_skill, i + 1,
                                                          Len(new_skill)))])]
            ELSE result
    ELSE IF StartsWith(line, "REASON:")
    THEN [result EXCEPT !.reason = StripText(ReplaceWord(line, "REASON:"))]
    ELSE result

RECURSIVE DecisionLines(_, _)
\* the loop of parse_skill_decision over the lines
DecisionLines(lines, result) ==
    IF lines = <<>> THEN result
    ELSE DecisionLines(Tail(lines), DecisionLine(result, lines[1]))

\* parse_skill_decision
parse_skill_decision(response) ==
    DecisionLines(SplitNewline(StripText(response)),
                  [start |-> <<>>, stop |-> <<>>, new |-> <<>>, reason |-> <<>>])

\* ------------------------------------------------------------------ skill.py: list_skills on a directory
\* a name is a sequence of characters; a directory is [exists, entries], where
\* entries maps each name in it to [dir, index, details]: a directory or a
\* file, and whether the directory holds index.md and details.md
CodePoint(c) ==
    CASE c = "." -> 46 [] c = "a" -> 97 [] c = "b" -> 98 [] c = "d" -> 100
      [] c = "m" -> 109 [] OTHER -> 0

MdSuffix == <<".", "m", "d">>

\* d.name.startswith(".")
IsHidden(name) == name # <<>> /\ name[1] = "."

\* the pattern "*.md" matches the name
MatchesMd(name) ==
    Len(name) >= 3 /\ SubSeq(name, Len(name) - 2, Len(name)) = MdSuffix

\* f.stem of a name that ends in .md: a name that is only the suffix has no suffix
Stem(name) == IF Len(name) = 3 THEN name ELSE SubSeq(name, 1, Len(name) - 3)

RECURSIVE StrLess(_, _)
\* the order of str
StrLess(x, y) ==
    IF y = <<>> THEN FALSE
    ELSE IF x = <<>> THEN TRUE
    ELSE IF x[1] # y[1] THEN CodePoint(x[1]) < CodePoint(y[1])
    ELSE StrLess(Tail(x), Tail(y))

RECURSIVE SortedNames(_)
\* sorted(skills)
SortedNames(names) ==
    IF names = {} THEN <<>>
    ELSE LET least == CHOOSE x \in names : \A y \in names \ {x} : StrLess(x, y)
         IN <<least>> \o SortedNames(names \ {least})

\* lines 74-77: the directories that are skills
DirectorySkills(entries) ==
    {d \in DOMAIN entries :
        /\ entries[d].dir /\ ~IsHidden(d)
        /\ (entries[d].index \/ entries[d].details)}

\* line 80: skills_dir.glob("*.md") yields every entry whose name matches
GlobMd(entries) == {f \in DOMAIN entries : MatchesMd(f)}

\* list_skills(skills_dir)
list_skills_in(skills_dir) ==
    IF ~skills_dir.exists THEN <<>>
    ELSE SortedNames(DirectorySkills(skills_dir.entries)
                     \cup {Stem(f) : f \in GlobMd(skills_dir.entries)})

\* ------------------------------------------------------------------ skill.py, utils.py: SkillDir on a directory
\* a skill directory is [exists, files]; files maps a name to the characters
\* on disk
LineSep == <<"\n">>

RECURSIVE TranslateOnWrite(_)
\* path.write_text(content): text mode writes each \n as os.linesep
TranslateOnWrite(content) ==
    IF content = <<>> THEN <<>>
    ELSE (IF content[1] = "\n" THEN LineSep ELSE <<content[1]>>)
         \o TranslateOnWrite(Tail(content))

RECURSIVE UniversalNewlines(_)
\* path.read_text(): text mode gives \r\n and \r as \n
UniversalNewlines(chars) ==
    IF chars = <<>> THEN <<>>
    ELSE IF chars[1] = "\r"
         THEN IF Len(chars) >= 2 /\ chars[2] = "\n"
              THEN <<"\n">> \o UniversalNewlines(SubSeq(chars, 3, Len(chars)))
              ELSE <<"\n">> \o UniversalNewlines(Tail(chars))
         ELSE <<chars[1]>> \o UniversalNewlines(Tail(chars))

\* read_file of utils.py: path.exists() is false when the directory is missing
read_file(base, name) ==
    IF base.exists /\ name \in DOMAIN base.files
    THEN UniversalNewlines(base.files[name])
    ELSE <<>>

\* write_file of utils.py: mkdir(parents=True, exist_ok=True), then write_text
write_file(base, name, content) ==
    [exists |-> TRUE, files |-> Put(base.files, name, TranslateOnWrite(content))]

\* SkillDir.read_index
read_index(base) == read_file(base, IndexName)

\* SkillDir.read_details
read_details(base) == read_file(base, DetailsName)

\* ------------------------------------------------------------------ functions called on their own
Texts == {<<>>, <<"a">>, <<"b">>}

Blocks ==
    [dict : {TRUE}, type : {"text"}, has_text : {TRUE}, text : Texts]
    \cup {[dict |-> TRUE, type |-> "text", has_text |-> FALSE, text |-> <<>>],
          [dict |-> TRUE, type |-> "tool_use", has_text |-> TRUE, text |-> <<"b">>],
          [dict |-> FALSE, type |-> "-", has_text |-> FALSE, text |-> <<>>]}

Contents ==
    {NoContent} \cup {StrContent(t) : t \in Texts}
    \cup {ListContent(b) : b \in UNION {[1..n -> Blocks] : n \in 0..MaxBlocks}}

Entries ==
    [type : {"user", "assistant", "summary", "absent"},
     message : {NoMessage} \cup [present : {TRUE}, role : {"absent", "assistant"},
                                 content : Contents]]

CallParseJsonlEntry(entry) ==
    /\ call = NoCall
    /\ call' = [fn |-> "parse_jsonl_entry", arg |-> entry,
                res |-> parse_jsonl_entry(entry)]
    /\ UNCHANGED <<trackerVars, obsVars, mgrVars, pidFiles, submitted>>

ResponseTokens == {"a", " ", "\n", "NEW_FILE:", "ex.md", "NO_UPDATE"}

\* the distillation responses the parser is given
Responses == UNION {[1..n -> ResponseTokens] : n \in 0..MaxResponseLen}

CallParseDistillResponse(response) ==
    /\ call = NoCall
    /\ call' = [fn |-> "parse_distill_response", arg |-> response,
                res |-> parse_distill_response(response)]
    /\ UNCHANGED <<trackerVars, obsVars, mgrVars, pidFiles, submitted>>

\* the lines a decision response is made of
DecisionLineSet ==
    { <<"START:", " ", "a", ",", " ", "b">>,
      <<"START:", " ", "None">>,
      <<"STOP:", " ", "none">>,
      <<"STOP:", " ", "a">>,
      <<"NEW:", " ", "foo", ":", " ", "makes", " ", "foo">>,
      <<"NEW:", " ", "bar", ":", " ", "x">>,
      <<"NEW:", " ", "foo">>,
      <<"NEW:", " ", "NONE">>,
      <<"REASON:", " ", "x">>,
      <<" ", "a">> }

\* the decision responses the parser is given
DecisionResponses ==
    {JoinNewline(ls) : ls \in UNION {[1..n -> DecisionLineSet] : n \in 0..MaxDecisionLines}}

CallParseSkillDecision(response) ==
    /\ call = NoCall
    /\ call' = [fn |-> "parse_skill_decision", arg |-> response,
                res |-> parse_skill_decision(response)]
    /\ UNCHANGED <<trackerVars, obsVars, mgrVars, pidFiles, submitted>>

\* the processes of a table, and the tables stop_observer is called on
ProcKinds ==
    [skill : {"s1"}, st : {"dead", "spawned", "running", "stopping"}, owner : {"me"}]
    \cup [skill : {"-"}, st : {"unrelated"}, owner : {"me", "other"}]

ProcTables == UNION {[1..k -> ProcKinds] : k \in 0..MaxPids}

RECURSIVE StopTimes(_, _, _)
\* n calls of stop_observer with the same pid
StopTimes(n, w, pid) ==
    IF n = 0 THEN w ELSE StopTimes(n - 1, stop_observer(w, pid), pid)

CallStopObserver(ps, pid) ==
    /\ call = NoCall
    /\ call' = [fn |-> "stop_observer", arg |-> [procs |-> ps, pid |-> pid],
                res |-> StopTimes(MaxStops,
                                  [running |-> <<>>, procs |-> ps, nextPid |-> nextPid,
                                   sent |-> <<>>, calls |-> <<>>], pid).calls]
    /\ UNCHANGED <<trackerVars, obsVars, mgrVars, pidFiles, submitted>>

\* the names and the entries of a skills directory
EntryNames ==
    {<<"a">>, <<"b">>, <<".", "a">>, <<"a">> \o MdSuffix, <<"b">> \o MdSuffix,
     <<".", "a">> \o MdSuffix}

EntryKinds ==
    {[dir |-> FALSE, index |-> FALSE, details |-> FALSE],
     [dir |-> TRUE, index |-> FALSE, details |-> FALSE],
     [dir |-> TRUE, index |-> TRUE, details |-> FALSE],
     [dir |-> TRUE, index |-> FALSE, details |-> TRUE]}

SkillsDirs ==
    {[exists |-> FALSE, entries |-> <<>>]}
    \cup {[exists |-> TRUE, entries |-> e] :
             e \in UNION {[ns -> EntryKinds] :
                            ns \in {x \in SUBSET EntryNames : Cardinality(x) <= MaxEntries}}}

CallListSkills(skills_dir) ==
    /\ call = NoCall
    /\ call' = [fn |-> "list_skills", arg |-> skills_dir, res |-> list_skills_in(skills_dir)]
    /\ UNCHANGED <<trackerVars, obsVars, mgrVars, pidFiles, submitted>>

\* the characters found in index.md and details.md before the call, the
\* directories, and the texts given to the writers
DiskTexts == {<<>>, <<"a">>, <<"a", "\r", "\n">>}

SkillDirs ==
    {[exists |-> FALSE, files |-> <<>>]}
    \cup {[exists |-> TRUE, files |-> f] :
             f \in UNION {[ns -> DiskTexts] : ns \in SUBSET {IndexName, DetailsName}}}

WrittenTexts == UNION {[1..n -> {"a", "\n", "\r"}] : n \in 0..MaxTextLen}

\* the two reads, a write of one artifact, the two reads again
CallSkillDir(base, artifact, t) ==
    /\ call = NoCall
    /\ LET after == write_file(base, artifact, t) IN
       call' = [fn |-> "SkillDir", arg |-> [base |-> base, artifact |-> artifact, t |-> t],
                res |-> [index0 |-> read_index(base), details0 |-> read_details(base),
                         exists |-> after.exists,
                         index |-> read_index(after), details |-> read_details(after)]]
    /\ UNCHANGED <<trackerVars, obsVars, mgrVars, pidFiles, submitted>>

\* ------------------------------------------------------------------ truncate_messages
\* agent.py lines 26-43 and, word for word, observer.py lines 25-42
PerMessageCap == 2000
EllipsisLen == 3
DefaultMaxChars == 30000

\* A content is the text of message id: its first `chars` characters, followed
\* by "..." when `ellipsis` is set.
\* len(content)
ContentLen(content) == content.chars + (IF content.ellipsis THEN EllipsisLen ELSE 0)

\* content[:2000] + "..."
CutContent(content) ==
    [id |-> content.id,
     chars |-> IF content.chars < PerMessageCap THEN content.chars ELSE PerMessageCap,
     ellipsis |-> TRUE]

\* lines 32-35: the message the loop goes on with
CutMessage(msg) ==
    IF ContentLen(msg.content) > PerMessageCap
    THEN [role |-> msg.role, content |-> CutContent(msg.content)]
    ELSE msg

\* a test of the budget that leaves the message at hand out
FitsBeforeAdding(total_chars, msg_chars, max_chars) == total_chars <= max_chars

\* line 38, negated: the message still fits
Fits(total_chars, msg_chars, max_chars) == total_chars + msg_chars <= max_chars

RECURSIVE TruncateFrom(_, _, _, _, _)
\* lines 31-41: for msg in reversed(messages), from messages[i] on; result is
\* kept in the order of line 43, list(reversed(result))
TruncateFrom(messages, i, total_chars, result, max_chars) ==
    IF i = 0 THEN result
    ELSE LET msg == CutMessage(messages[i])
             msg_chars == ContentLen(msg.content)
         IN IF Fits(total_chars, msg_chars, max_chars)
            THEN TruncateFrom(messages, i - 1, total_chars + msg_chars,
                              <<msg>> \o result, max_chars)
            ELSE result

\* truncate_messages: the list returned, and the list given as it is after
\* the call (the loop assigns to its own names only)
truncate_messages(messages, max_chars) ==
    [result |-> TruncateFrom(messages, Len(messages), 0, <<>>, max_chars),
     messages |-> messages]

ContentLengths == {0, 1, PerMessageCap, PerMessageCap + 1, 2 * PerMessageCap}

MessageLists ==
    UNION {{[i \in 1..n |-> [role |-> roles[i],
                             content |-> [id |-> i, chars |-> lens[i],
                                          ellipsis |-> FALSE]]] :
                roles \in [1..n -> {"user", "assistant"}],
                lens \in [1..n -> ContentLengths]} : n \in 0..MaxMessages}

MaxCharsGiven ==
    {0, 1, PerMessageCap, PerMessageCap + EllipsisLen,
     2 * (PerMessageCap + EllipsisLen), DefaultMaxChars}

CallTruncateMessages(messages, max_chars) ==
    /\ call = NoCall
    /\ call' = [fn |-> "truncate_messages",
                arg |-> [messages |-> messages, max_chars |-> max_chars],
                res |-> truncate_messages(messages, max_chars)]
    /\ UNCHANGED <<trackerVars, obsVars, mgrVars, pidFiles, submitted>>

\* the lists of names of a decision: a name may be listed twice
NameLists == UNION {[1..k -> Skills] : k \in 0..MaxNames}

PhaseDecisions == [new : NameLists, start : NameLists, stop : NameLists]

\* the manager when an Applying phase begins: running as get_running_observers
\* returned it (line 288), existing_skills as list_skills returned it (286)
PhaseStates ==
    {[running |-> r.running, procs |-> r.procs, nextPid |-> Len(r.procs) + 1,
      existing_skills |-> e, sent |-> <<>>, calls |-> <<>>] :
        r \in {[running |-> <<>>, procs |-> <<>>],
               [running |-> [n \in {"s1"} |-> 1],
                procs |-> <<[skill |-> "s1", st |-> "running", owner |-> "me"]>>],
               [running |-> [n \in {"s2"} |-> 1],
                procs |-> <<[skill |-> "s2", st |-> "stopping", owner |-> "me"]>>],
               [running |-> [n \in {"s1"} |-> 1],
                procs |-> <<[skill |-> "-", st |-> "unrelated", owner |-> "other"]>>],
               [running |-> [n \in {"s1", "s2"} |-> IF n = "s1" THEN 1 ELSE 2],
                procs |-> <<[skill |-> "s1", st |-> "dead", owner |-> "me"],
                            [skill |-> "s2", st |-> "running", owner |-> "me"]>>]},
        e \in SUBSET Skills}

\* one Applying phase of run_agent
CallApply(decision, fails, w) ==
    /\ call = NoCall
    /\ call' = [fn |-> "apply", arg |-> [decision |-> decision, fails |-> fails, w |-> w],
                res |-> ApplyPhases(decision, fails, w)]
    /\ UNCHANGED <<trackerVars, obsVars, mgrVars, pidFiles, submitted>>

\* the loop over the new skills of a decision
CallApplyNew(new, fails, w) ==
    /\ call = NoCall
    /\ call' = [fn |-> "apply_new", arg |-> [new |-> new, fails |-> fails, w |-> w],
                res |-> ApplyNew(new, w, fails)]
    /\ UNCHANGED <<trackerVars, obsVars, mgrVars, pidFiles, submitted>>

\* the loop over the starts of a decision
CallApplyStart(start, fails, w) ==
    /\ call = NoCall
    /\ call' = [fn |-> "apply_start", arg |-> [start |-> start, fails |-> fails, w |-> w],
                res |-> ApplyStart(start, w, fails)]
    /\ UNCHANGED <<trackerVars, obsVars, mgrVars, pidFiles, submitted>>

\* the loop over the stops of a decision
CallApplyStop(stop, w) ==
    /\ call = NoCall
    /\ call' = [fn |-> "apply_stop", arg |-> [stop |-> stop, w |-> w],
                res |-> ApplyStop(stop, w)]
    /\ UNCHANGED <<trackerVars, obsVars, mgrVars, pidFiles, submitted>>

CallNext ==
    \/ call = NoCall /\ \E messages \in MessageLists, max_chars \in MaxCharsGiven :
                            CallTruncateMessages(messages, max_chars)
    \/ call = NoCall /\ \E stop \in NameLists, w \in PhaseStates : CallApplyStop(stop, w)
    \/ call = NoCall /\ \E decision \in PhaseDecisions, fails \in SUBSET Skills,
                            w \in PhaseStates : CallApply(decision, fails, w)
    \/ call = NoCall /\ \E new \in NameLists, fails \in SUBSET Skills,
                            w \in PhaseStates : CallApplyNew(new, fails, w)
    \/ call = NoCall /\ \E start \in NameLists, fails \in SUBSET Skills,
                            w \in PhaseStates : CallApplyStart(start, fails, w)
    \/ call = NoCall /\ \E base \in SkillDirs, artifact \in {IndexName, DetailsName},
                               t \in WrittenTexts : CallSkillDir(base, artifact, t)
    \/ call = NoCall /\ \E entry \in Entries : CallParseJsonlEntry(entry)
    \/ call = NoCall /\ \E response \in DecisionResponses : CallParseSkillDecision(response)
    \/ call = NoCall /\ \E response \in Responses : CallParseDistillResponse(response)
    \/ call = NoCall /\ \E ps \in ProcTables, pid \in 1..(MaxPids + 1) :
                            CallStopObserver(ps, pid)
    \/ call = NoCall /\ \E skills_dir \in SkillsDirs : CallListSkills(skills_dir)

CallInit == TrackerOnlyInit /\ skip_existing

CallSpec == CallInit /\ [][CallNext]_vars

\* one observer process, from the start of run_observer, and the transcript writer
ObserverInit ==
    /\ TrackerInit
    /\ o_pc = "start"
    /\ pending_messages = <<>>
    /\ distill_count = 0
    /\ shutdown_requested = FALSE
    /\ o_result = <<>>
    /\ skillDir = <<>>
    /\ reqPending = FALSE
    /\ finalDistills = 0
    /\ o_attempted = FALSE
    /\ lastSummary = <<>>
    /\ lastDetails = <<>>
    /\ unsummarized = FALSE
    /\ inflight = {}
    /\ writtenResources = {}
    /\ o_req = NoRequest
    /\ ManagerOff
    /\ pidFiles = <<>>
    /\ submitted = <<>>
    /\ call = NoCall

\* an engine call of the loop is in flight
InCall == o_pc \in {"distilling", "summarizing"} \/ m_pc = "evaluating"

\* the external tool appends a record while a loop runs; the history of the
\* records appended during an engine call is kept
WriterAppends(f, max) ==
    /\ AppendRecordUpTo(f, max)
    /\ inflight' = IF InCall THEN inflight \cup {nextId} ELSE inflight
    /\ UNCHANGED <<obsLoop, mgrVars, pidFiles, submitted, call>>

\* the steps of run_observer
ObserverSteps ==
    \/ ObserverStartup /\ UNCHANGED <<mgrVars, call>>
    \/ ObserverSignal /\ UNCHANGED <<mgrVars, call>>
    \/ ObserverWhile /\ UNCHANGED <<mgrVars, call>>
    \/ ObserverPoll /\ UNCHANGED <<mgrVars, call>>
    \/ \E response \in DistillResponses :
          ObserverDistilled(response) /\ UNCHANGED <<mgrVars, call>>
    \/ \E response \in SummaryResponses :
          ObserverSummarized(response) /\ UNCHANGED <<mgrVars, call>>
    \/ ObserverEngineError /\ UNCHANGED <<mgrVars, call>>
    \/ ObserverCheck /\ UNCHANGED <<mgrVars, call>>
    \/ ObserverWake /\ UNCHANGED <<mgrVars, call>>
    \/ ObserverFinally /\ UNCHANGED <<mgrVars, call>>

ObserverNext ==
    \/ ObserverSteps
    \/ \E f \in ObserverTranscripts :
          /\ ObserverRuns \/ o_pc = "start"
          /\ AppendRecordUpTo(f, MaxObserverRecords)
          /\ UNCHANGED <<obsVars, mgrVars, pidFiles, submitted, call>>

ObserverSpec == ObserverInit /\ [][ObserverNext]_vars

\* the manager process, the observer processes it spawns, and the transcript writer
ManagerInit ==
    /\ TrackerInit
    /\ skip_existing = TRUE
    /\ ObserverOff
    /\ m_pc = "start"
    /\ m_pending = <<>>
    /\ m_shutdown = FALSE
    /\ running = <<>>
    /\ existing_skills = {}
    /\ procs = <<>>
    /\ nextPid = 1
    /\ diskSkills \in {{}, {"s1"}}
    /\ m_attempted = FALSE
    /\ drain = [tracked |-> <<>>, alive |-> {}, sent |-> <<>>]
    /\ applied = <<>>
    /\ m_req = NoRequest
    /\ pidFiles = <<>>
    /\ submitted = <<>>
    /\ call = NoCall

\* the steps of run_agent
ManagerSteps ==
    \/ ManagerStartup /\ UNCHANGED <<obsVars, call>>
    \/ ManagerSignal /\ UNCHANGED <<obsVars, call>>
    \/ ManagerWhile /\ UNCHANGED <<obsVars, call>>
    \/ ManagerPoll /\ UNCHANGED <<obsVars, call>>
    \/ \E decision \in Decisions, fails \in SUBSET Skills :
          ManagerEvaluated(decision, fails) /\ UNCHANGED <<obsVars, call>>
    \/ ManagerEngineError /\ UNCHANGED <<obsVars, call>>
    \/ ManagerWake /\ UNCHANGED <<obsVars, call>>
    \/ ManagerFinally /\ UNCHANGED <<obsVars, call>>

ManagerNext ==
    \/ ManagerSteps
    \/ \E pid \in 1..MaxPids : ProcCreatePidFile(pid) /\ UNCHANGED <<obsVars, call>>
    \/ \E pid \in 1..MaxPids : ProcWritePidFile(pid) /\ UNCHANGED <<obsVars, call>>
    \/ \E pid \in 1..MaxPids : ProcDistills(pid) /\ UNCHANGED <<obsVars, call>>
    \/ \E pid \in 1..MaxPids : ProcExit(pid) /\ UNCHANGED <<obsVars, call>>
    \/ \E pid \in 1..MaxPids : ProcCrash(pid) /\ UNCHANGED <<obsVars, call>>
    \/ \E pid \in 1..MaxPids, owner \in {"me", "other"} :
          PidReused(pid, owner) /\ UNCHANGED <<obsVars, call>>
    \/ \E f \in ObserverTranscripts :
          /\ ManagerRuns
          /\ AppendRecord(f)
          /\ UNCHANGED <<obsVars, mgrVars, pidFiles, submitted, call>>

\* the program is started as the manager (cli: agent) or as one observer
\* (cli: observer)
Init == ManagerInit \/ ObserverInit

Next == ManagerNext \/ ObserverNext

Spec == Init /\ [][Next]_vars

\* the two loops and the transcript writer, with the history of the records
\* appended during engine calls; the observers the manager spawns take no step
LoopsNext ==
    \/ ObserverSteps
    \/ ManagerSteps
    \/ \E f \in ObserverTranscripts :
          /\ ObserverRuns \/ o_pc = "start"
          /\ WriterAppends(f, MaxObserverRecords)
    \/ \E f \in ObserverTranscripts :
          /\ ManagerRuns
          /\ WriterAppends(f, MaxRecords)

LoopsSpec == Init /\ [][LoopsNext]_vars

\* ------------------------------------------------------------------ tracker claims
ConversationalTypes == {"user", "assistant"}

\* the user/assistant records of f whose two characters lie after offset lo and
\* not after offset hi, in file order (what is on disk, not what a reader sees)
RecordsBetween(f, lo, hi) ==
    LET s == files[f]
        at == SelectSeq([i \in 1..Len(s) |-> i],
                        LAMBDA i : /\ i > lo
                                   /\ i + 1 <= hi
                                   /\ i + 1 <= Len(s)
                                   /\ s[i].c = "h"
                                   /\ s[i].ty \in ConversationalTypes
                                   /\ s[i + 1].c = "t"
                                   /\ s[i + 1].id = s[i].id)
    IN [j \in 1..Len(at) |-> s[at[j]].id]

NoDuplicates(s) == \A i, j \in 1..Len(s) : s[i] = s[j] => i = j

\* C1: with an append-only transcript, every well-formed user/assistant record
\* written after the tracker's starting offset and before the offset it has read
\* to has been returned by exactly one update(), in file order
C1_EveryRecordOnce ==
    current_file # NoFile =>
        epochReturned = RecordsBetween(current_file, startOff, file_position)

\* C2: while current_file keeps its value, file_position never decreases from one
\* update() to the next and no message is returned by two calls
C2_OffsetMonotone ==
    /\ [][current_file' = current_file => file_position' >= file_position]_vars
    /\ [](NoDuplicates(epochReturned))

C2_Witness ==
    /\ lastCall = "same"
    /\ Len(epochReturned) >= 2
    /\ file_position > startOff
    /\ file_position < StSize(current_file)

\* C3: a change of the most recent transcript resets the offset to 0 (to the end
\* of the file only on the first observation under skip_existing), and a message
\* returned from an earlier tracked file is never returned again
C3_NoReplay ==
    /\ startOff # 0 => skip_existing
    /\ Range(epochReturned) \cap returnedBefore = {}

\* C4: under skip_existing the first update() that sees a transcript returns
\* nothing and sets file_position to the file's size, and the update() after it
\* returns every well-formed record appended in between; without skip_existing
\* the first update() returns the records already in the file
C4_SkipExisting ==
    [][/\ (~initialized /\ files' = files /\ mtimeOrder # <<>> /\ skip_existing) =>
            /\ epochReturned' = <<>>
            /\ file_position' = StSize(mtimeOrder[1])
            /\ current_file' = mtimeOrder[1]
       /\ (~initialized /\ files' = files /\ mtimeOrder # <<>> /\ ~skip_existing) =>
            epochReturned' = RecordsBetween(mtimeOrder[1], 0, StSize(mtimeOrder[1]))
       /\ (lastCall = "skip" /\ lastCall' = "same") =>
            epochReturned' = RecordsBetween(current_file, file_position,
                                            StSize(current_file))
      ]_vars

C4_Witness ==
    /\ skip_existing
    /\ lastCall = "same"
    /\ returnedBefore = {}
    /\ startOff > 0
    /\ file_position > startOff
    /\ epochReturned # <<>>

\* C11 as stated: an update() whose read fails returns nothing and leaves
\* file_position as it was before the call
C11_PositionUnchanged ==
    [][(lastCall' = "failed" /\ files' = files) =>
            /\ file_position' = file_position
            /\ epochReturned' \in {<<>>, epochReturned}
      ]_vars

\* C11, amended: an update() whose read fails returns nothing; file_position is
\* left as it was when the file is the one already tracked, and is 0 when the
\* call has just switched to the file
C11_ReadFailure ==
    [][(lastCall' = "failed" /\ files' = files) =>
            /\ current_file' = current_file =>
                   file_position' = file_position /\ epochReturned' = epochReturned
            /\ current_file' # current_file =>
                   file_position' = 0 /\ epochReturned' = <<>>
      ]_vars

C11_Witness ==
    /\ lastCall = "failed"
    /\ file_position > 0
    /\ file_position < StSize(current_file)
    /\ epochReturned # <<>>

\* the texts of the text-typed blocks of a content list, in order
TextSegments(content) ==
    LET at == SelectSeq([i \in 1..Len(content.blocks) |-> i],
                        LAMBDA i : content.blocks[i].dict
                                   /\ content.blocks[i].type = "text")
    IN [j \in 1..Len(at) |->
           IF content.blocks[at[j]].has_text THEN content.blocks[at[j]].text ELSE <<>>]

\* what the claim calls the normalized content of a record, given by cases: a
\* text is the normalized content of a list when cutting it at its newlines
\* gives the text segments of the list
IsNormalizedContent(text, entry) ==
    LET content == entry.message.content IN
    CASE ~entry.message.present \/ content.kind = "absent" -> text = <<>>
      [] content.kind = "str" -> text = content.text
      [] content.kind = "list" ->
            IF TextSegments(content) = <<>> THEN text = <<>>
            ELSE SplitNewline(text) = TextSegments(content)

\* C20: parse_jsonl_entry gives a message exactly for the user and assistant
\* records whose normalized content is not empty, and the content of the
\* message is that normalized content
C20_ParseEntry ==
    call.fn = "parse_jsonl_entry" =>
        LET entry == call.arg
            res == call.res
        IN IF res = <<>>
           THEN \/ entry.type \notin ConversationalTypes
                \/ IsNormalizedContent(<<>>, entry)
           ELSE /\ entry.type \in ConversationalTypes
                /\ res[1].content # <<>>
                /\ IsNormalizedContent(res[1].content, entry)

\* a list of a text block, a tool_use block and another text block
C20_Witness ==
    /\ call.fn = "parse_jsonl_entry"
    /\ call.arg.type = "assistant"
    /\ call.arg.message.content.kind = "list"
    /\ Len(call.arg.message.content.blocks) = MaxBlocks
    /\ call.arg.message.content.blocks[1].type = "tool_use"
    /\ call.arg.message.content.blocks[MaxBlocks].type = "text"
    /\ call.res # <<>>
    /\ call.res[1].content = <<"a">>

\* the response of the claim's example
ExampleDecision ==
    JoinNewline(<< <<"START:", " ", "a", ",", " ", "b">>,
                   <<"STOP:", " ", "none">>,
                   <<"NEW:", " ", "foo", ":", " ", "makes", " ", "foo">>,
                   <<"REASON:", " ", "x">> >>)

\* the lines of a response that begin with the word, in order
FieldLines(response, word) ==
    SelectSeq(SplitNewline(response), LAMBDA l : StripText(l) # <<>> /\ StripText(l)[1] = word)

\* the text of a field line after its word
FieldValue(line) == StripText(Tail(StripText(line)))

\* the value is the word none in some letter case
IsNoneWord(value) == value \in {<<"none">>, <<"None">>, <<"NONE">>}

\* C15: the example gives start a, b, no stop, the skill foo with its
\* description and the reason x; the create list holds, in response order, the
\* NEW: lines that have a colon; a START: or STOP: line whose value is none, in
\* any letter case, gives an empty field
C15_ParseDecision ==
    call.fn = "parse_skill_decision" =>
        LET response == call.arg
            res == call.res
            news == SelectSeq(FieldLines(response, "NEW:"),
                              LAMBDA l : \E i \in 1..Len(FieldValue(l)) : FieldValue(l)[i] = ":")
            first(l) == SplitAt(FieldValue(l), ":")[1]
        IN /\ response = ExampleDecision =>
                 res = [start |-> << <<"a">>, <<"b">> >>, stop |-> <<>>,
                        new |-> <<[name |-> <<"foo">>,
                                   description |-> <<"makes", " ", "foo">>]>>,
                        reason |-> <<"x">>]
           /\ Len(res.new) = Len(news)
           /\ \A i \in 1..Len(news) :
                 /\ res.new[i].name = StripText(first(news[i]))
                 /\ res.new[i].description =
                       StripText(SubSeq(FieldValue(news[i]), Len(first(news[i])) + 2,
                                        Len(FieldValue(news[i]))))
           /\ \A l \in Range(FieldLines(response, "START:")) :
                 (Len(FieldLines(response, "START:")) = 1 /\ IsNoneWord(FieldValue(l)))
                     => res.start = <<>>
           /\ \A l \in Range(FieldLines(response, "STOP:")) :
                 (Len(FieldLines(response, "STOP:")) = 1 /\ IsNoneWord(FieldValue(l)))
                     => res.stop = <<>>

\* two NEW: lines with a description around one without, and START: None
C15_Witness ==
    /\ call.fn = "parse_skill_decision"
    /\ Len(call.res.new) = 2
    /\ call.res.new[1].name = <<"bar">>
    /\ call.res.new[2].name = <<"foo">>
    /\ Len(FieldLines(call.arg, "NEW:")) = 3
    /\ Len(FieldLines(call.arg, "START:")) = 1
    /\ call.res.start = <<>>

\* the lines i..j of a response, joined again and trimmed
TrimmedLines(lines, i, j) ==
    StripText(JoinNewline(SubSeq(lines, i, j)))

\* C16: NO_UPDATE and the empty response give no details and no resources; for
\* any other response details is the trimmed text before the first NEW_FILE:
\* line, and every NEW_FILE: line with a filename gives a resource of that name
\* whose content is the trimmed text up to the next NEW_FILE: line or the end
C16_ParseDistill ==
    call.fn = "parse_distill_response" =>
        LET response == call.arg
            res == call.res
            lines == SplitNewline(response)
            markers == {i \in 1..Len(lines) :
                           lines[i] # <<>> /\ lines[i][1] = "NEW_FILE:"}
            before == IF markers = {} THEN Len(lines)
                      ELSE (CHOOSE i \in markers : \A j \in markers : i <= j) - 1
            until(i) == IF \E j \in markers : j > i
                        THEN (CHOOSE j \in markers :
                                 j > i /\ \A k \in markers : k > i => j <= k) - 1
                        ELSE Len(lines)
            name(i) == StripText(Tail(lines[i]))
        IN IF response = <<>> \/ StripText(response) = <<"NO_UPDATE">>
           THEN res.details = <<>> /\ res.resource_files = NoResources
           ELSE /\ res.details = TrimmedLines(lines, 1, before)
                /\ \A i \in markers :
                      name(i) # <<>> =>
                         /\ name(i) \in DOMAIN res.resource_files
                         /\ res.resource_files[name(i)] =
                                TrimmedLines(lines, i + 1, until(i))

\* every line of f is ended by a newline
CompleteLines(f) == files[f] = <<>> \/ files[f][Len(files[f])] = NL

\* offset lo of f is the start of a line
LineStart(f, lo) == lo = 0 \/ files[f][lo] = NL

\* C12: a read that starts at a line of a file of complete lines returns the
\* well-formed user/assistant records after that offset, in file order, whatever
\* malformed lines lie between them, and ends at the end of the file; so does
\* every update() that reads
C12_MalformedLineSkipped ==
    /\ [](\A f \in TranscriptFiles : \A lo \in 0..StSize(f) :
             (FileExists(f) /\ CompleteLines(f) /\ LineStart(f, lo)) =>
                LET rd == read_messages_from_position(f, lo)
                IN /\ Ids(rd.messages) = RecordsBetween(f, lo, StSize(f))
                   /\ rd.new_position = StSize(f))
    /\ [][(files' = files /\ trkVars' # trkVars /\ lastCall' \in {"switch", "same"}) =>
              file_position' = StSize(current_file')]_vars

\* one update() has read a record, a malformed line and another record
C12_Witness ==
    /\ lastCall = "switch"
    /\ current_file \in TranscriptFiles
    /\ CompleteLines(current_file)
    /\ file_position = StSize(current_file)
    /\ Len(epochReturned) = 2
    /\ \E i \in 1..StSize(current_file) :
          /\ files[current_file][i] = Junk
          /\ RecordsBetween(current_file, 0, i) = <<epochReturned[1]>>
          /\ RecordsBetween(current_file, i, StSize(current_file)) = <<epochReturned[2]>>

\* the most recently modified transcript that is not a sub-conversation
MostRecentTranscript ==
    CHOOSE f \in TranscriptFiles :
        \E i \in 1..Len(mtimeOrder) :
            /\ mtimeOrder[i] = f
            /\ \A j \in 1..(i - 1) : mtimeOrder[j] \notin TranscriptFiles

\* C19: the file update() assigns and reads is the most recently modified
\* transcript whose name does not start with agent-; while no such file exists
\* the tracker stays as it was constructed
C19_MostRecentTranscript ==
    /\ [][trkVars' # trkVars => current_file' = MostRecentTranscript]_vars
    /\ []((\A f \in TranscriptFiles : ~FileExists(f)) =>
              current_file = NoFile /\ file_position = 0 /\ ~initialized
                  /\ epochReturned = <<>>)

C19_Witness ==
    /\ mtimeOrder # <<>>
    /\ mtimeOrder[1] \in SubConversationFiles
    /\ StSize(mtimeOrder[1]) > 0
    /\ current_file \in TranscriptFiles
    /\ epochReturned # <<>>
    /\ file_position = StSize(current_file)
    /\ lastCall = "same"

\* ------------------------------------------------------------------ observer claims
\* C5: an observer that was asked to shut down while its pending buffer was
\* non-empty has, when it has exited, made exactly one distillation attempt after
\* the request
C5_FinalDistillation ==
    (o_pc = "exited" /\ reqPending) => finalDistills = 1

IsPrefix(p, t) == Len(p) <= Len(t) /\ SubSeq(t, 1, Len(p)) = p

\* C8: the stored index.md is never larger than max_index_size bytes and is a
\* prefix, made of whole characters, of the trimmed summary the engine returned
C8_IndexCap ==
    IndexName \in DOMAIN skillDir =>
        /\ ByteLen(skillDir[IndexName]) <= MaxIndexSize
        /\ IsPrefix(skillDir[IndexName], StripText(lastSummary))

\* C9: no name passed to write_resource is index.md or details.md, and
\* details.md holds exactly the details of the last successful distillation
C9_ReservedNames ==
    /\ writtenResources \cap {IndexName, DetailsName} = {}
    /\ DetailsName \in DOMAIN skillDir => skillDir[DetailsName] = lastDetails

\* ------------------------------------------------------------------ manager claims
Count(seq, x) == Cardinality({i \in 1..Len(seq) : seq[i] = x})

\* C6: when the manager has exited, every live observer it tracked as running
\* at shutdown was sent exactly one stop signal by the draining phase
C6_DrainStopsTracked ==
    m_pc = "exited" =>
        \A n \in DOMAIN drain.tracked :
            drain.tracked[n] \in drain.alive => Count(drain.sent, drain.tracked[n]) = 1

\* the process a PID file belongs to is alive: the process whose pid it holds,
\* or the observer that has created the file and not yet written its pid
EntryAlive(n) ==
    IF pidFiles[n] # <<>> THEN Alive(pidFiles[n][1])
    ELSE \E pid \in DOMAIN procs : procs[pid].st = "creating" /\ procs[pid].skill = n

\* the step is a call of get_running_observers by the manager
CallsGetRunningObservers ==
    \/ m_pc = "start" /\ m_pc' = "while"
    \/ m_pc = "poll" /\ m_pc' = "evaluating"
    \/ m_pc = "finally" /\ m_pc' = "exited"

\* C7: get_running_observers drops and deletes the entries whose process is not
\* alive, returns and keeps the entries whose process is alive, and a crash of an
\* observer changes no PID file and no skill directory
C7_StaleCleanup ==
    [][/\ CallsGetRunningObservers =>
            \A n \in DOMAIN pidFiles :
                IF EntryAlive(n)
                THEN /\ n \in DOMAIN running'
                     /\ n \in DOMAIN pidFiles'
                     /\ pidFiles'[n] = pidFiles[n]
                     /\ pidFiles[n] # <<>> => running'[n] = pidFiles[n][1]
                ELSE n \notin DOMAIN running' /\ n \notin DOMAIN pidFiles'
       /\ (\E pid \in DOMAIN procs : ProcCrash(pid)) =>
            /\ pidFiles' = pidFiles
            /\ diskSkills' = diskSkills
      ]_vars

\* ------------------------------------------------------------------ loop claims
Disjoint(batches) ==
    \A i, j \in 1..Len(batches) :
        i # j => Range(batches[i]) \cap Range(batches[j]) = {}

\* C10: once an evaluation or a distillation attempt has been answered the
\* pending buffer is empty, and no message is in two submitted batches
C10_PendingCleared ==
    /\ (o_attempted /\ o_pc \in {"check", "sleep", "while"}) => pending_messages = <<>>
    /\ (m_attempted /\ m_pc \in {"sleep", "while"}) => m_pending = <<>>
    /\ Disjoint(submitted)

C10_Witness ==
    /\ o_attempted
    /\ o_pc \in {"check", "sleep"}
    /\ distill_count = 0
    /\ pending_messages = <<>>
    /\ Len(submitted) = 2

\* the start_observer calls of the Applying phase just done
StartCalls == {i \in 1..Len(applied) : applied[i].fn = "start_observer"}

\* C14: a start_observer call whose launch fails returns None, and a step of
\* the Applying phase adds a name to running only with the pid that a
\* start_observer call for that name returned
C14_SpawnFailure ==
    [][(m_pc = "evaluating" /\ m_pc' = "sleep") =>
          /\ \A i \in 1..Len(applied') :
                 (applied'[i].fn = "start_observer" /\ applied'[i].failed)
                    => applied'[i].ret = None
          /\ \A n \in DOMAIN running' :
                 (n \notin DOMAIN running \/ running'[n] # running[n])
                    => \E i \in 1..Len(applied') :
                          /\ applied'[i].fn = "start_observer"
                          /\ applied'[i].name = n
                          /\ applied'[i].ret # None
                          /\ applied'[i].ret = running'[n]]_vars

\* one Applying phase had a launch that failed and a launch that succeeded
C14_Witness ==
    /\ m_pc = "sleep"
    /\ \E i \in StartCalls : applied[i].failed /\ applied[i].name \notin DOMAIN running
    /\ \E i \in StartCalls : ~applied[i].failed /\ applied[i].name \in DOMAIN running

\* C13: stop_observer returns a boolean whatever os.kill does; called any number
\* of times with the pid of a process that no longer exists it returns True
\* every time, and a failure other than the missing process returns False
C13_StopIdempotent ==
    call.fn = "stop_observer" =>
        /\ \A i \in 1..Len(call.res) : call.res[i].ret \in BOOLEAN
        /\ Kill(call.arg.procs, call.arg.pid) = "ProcessLookupError"
              => \A i \in 1..Len(call.res) : call.res[i].ret = TRUE
        /\ Kill(call.arg.procs, call.arg.pid) = "PermissionError"
              => \A i \in 1..Len(call.res) : call.res[i].ret = FALSE

\* stop_observer was called more than once with the pid of a terminated observer
C13_Witness ==
    /\ call.fn = "stop_observer"
    /\ call.arg.pid \in DOMAIN call.arg.procs
    /\ call.arg.procs[call.arg.pid].st = "dead"
    /\ Len(call.res) >= 2
    /\ \A i \in 1..Len(call.res) : call.res[i].ret = TRUE

\* the .md entries of the root that are files
MdFiles(entries) == {f \in DOMAIN entries : MatchesMd(f) /\ ~entries[f].dir}

\* the names list_skills is to return: the directories that are skills and the
\* stems of the .md files
ExpectedSkills(entries) ==
    DirectorySkills(entries) \cup {Stem(f) : f \in MdFiles(entries)}

IsSortedNames(names) ==
    \A i \in 1..Len(names), j \in 1..Len(names) : i < j => StrLess(names[i], names[j])

\* the directory without its hidden directories
WithoutHiddenDirs(skills_dir) ==
    [skills_dir EXCEPT !.entries =
        [n \in {x \in DOMAIN @ : ~(@[x].dir /\ IsHidden(x))} |-> @[n]]]

\* C17: list_skills returns in ascending order, each once, exactly the
\* non-hidden directories that hold index.md or details.md and the stems of the
\* .md files of the root; hidden directories change nothing; a missing or empty
\* root gives the empty list
C17_ListSkills ==
    call.fn = "list_skills" =>
        /\ IsSortedNames(call.res)
        /\ Range(call.res) = IF call.arg.exists THEN ExpectedSkills(call.arg.entries) ELSE {}
        /\ call.res = list_skills_in(WithoutHiddenDirs(call.arg))
        /\ (~call.arg.exists \/ DOMAIN call.arg.entries = {}) => call.res = <<>>

\* C18: read_index and read_details give the empty string when the directory
\* or the artifact is missing; after write_index(t) or write_details(t) the
\* directory exists, the matching read gives exactly t and the other read
\* gives what it gave before
C18_ReadWrite ==
    call.fn = "SkillDir" =>
        LET base == call.arg.base
            r == call.res
        IN /\ (~base.exists \/ IndexName \notin DOMAIN base.files) => r.index0 = <<>>
           /\ (~base.exists \/ DetailsName \notin DOMAIN base.files) => r.details0 = <<>>
           /\ r.exists
           /\ call.arg.artifact = IndexName
                 => r.index = call.arg.t /\ r.details = r.details0
           /\ call.arg.artifact = DetailsName
                 => r.details = call.arg.t /\ r.index = r.index0

\* ------------------------------------------------------------------ shutdown claims
\* the engine call that was in flight when shutdown was requested has ended
\* by the time the process has exited
InFlightCompleted ==
    /\ (o_pc = "exited" /\ o_req.at \in {"distilling", "summarizing"}) => o_req.calls >= 1
    /\ (m_pc = "exited" /\ m_req.at = "evaluating") => m_req.calls >= 1

\* C21, as stated: after a shutdown request the manager and the observer each
\* end at most one sleep and at most one engine call, and a call in flight at
\* the request has ended before the process exits
C21_ShutdownLatency ==
    /\ o_req.sleeps <= 1 /\ o_req.calls <= 1
    /\ m_req.sleeps <= 1 /\ m_req.calls <= 1
    /\ InFlightCompleted

\* C21, amended: after a shutdown request the manager ends at most one sleep
\* and at most one engine call; the observer ends at most one sleep and at most
\* two engine calls, the final distillation and the summarization that follows
\* it; a call in flight at the request has ended before the process exits
C21_ShutdownLatencyTwoCalls ==
    /\ o_req.sleeps <= 1 /\ o_req.calls <= 2
    /\ m_req.sleeps <= 1 /\ m_req.calls <= 1
    /\ InFlightCompleted

\* an observer asked to stop during a distillation has exited after that
\* distillation and a summarization
C21_Witness ==
    /\ o_pc = "exited"
    /\ o_req.at = "distilling"
    /\ o_req.calls = 2
    /\ IndexName \in DOMAIN skillDir

\* ------------------------------------------------------------------ registry claims
\* the live observer processes of a skill
LiveObservers(n) == {pid \in DOMAIN procs : IsObserver(pid) /\ procs[pid].skill = n}

\* C22: at any time at most one live observer process exists per skill name
C22_OneObserverPerSkill ==
    \A n \in Skills : Cardinality(LiveObservers(n)) <= 1

\* the path is below the directory
IsBelow(path, dir) == Len(path) > Len(dir) /\ SubSeq(path, 1, Len(dir)) = dir

\* C23: every file the observer has written through write_resource is inside
\* the directory of its own skill
C23_WritesInsideOwnDir ==
    \A name \in writtenResources : IsBelow(resource_path(name), base_dir)

\* the PID file of skill n belongs to a live observer: it holds the pid of a
\* live observer of n, or a live observer of n has created it and is about to
\* write its pid
OwnerAlive(n) ==
    \E pid \in DOMAIN procs :
        /\ IsObserver(pid)
        /\ procs[pid].skill = n
        /\ \/ pidFiles[n] = <<pid>>
           \/ pidFiles[n] = <<>> /\ procs[pid].st = "creating"

\* C24: a call of get_running_observers leaves in place every PID file that
\* belongs to a live observer
C24_LivePidFileKept ==
    [][CallsGetRunningObservers =>
          \A n \in DOMAIN pidFiles : OwnerAlive(n) => n \in DOMAIN pidFiles']_vars

\* the step is the exit of observer pid through the finally clause of its loop
ExitsThroughFinally(pid) ==
    /\ procs[pid].st = "stopping"
    /\ procs'[pid].st = "dead"
    /\ pidFiles' = remove_pid_file(procs[pid].skill)

\* C25: an exiting observer removes the PID file of its skill only when the
\* file holds its own pid, and its exit leaves every other live observer
\* registered
C25_ExitRemovesOwnMapping ==
    [][\A pid \in DOMAIN procs :
          ExitsThroughFinally(pid) =>
              /\ pidFiles' # pidFiles => pidFiles[procs[pid].skill] = <<pid>>
              /\ \A n \in DOMAIN pidFiles :
                     (\E q \in DOMAIN procs \ {pid} :
                         IsObserver(q) /\ pidFiles[n] = <<q>>)
                     => n \in DOMAIN pidFiles']_vars

\* C26: from its first poll until its finally clause the observer's skill is
\* mapped to its own pid, and once the observer has left its loop, by a
\* shutdown request or by an exception, the PID file of its skill is absent
C26_PidFileLifecycle ==
    /\ o_pc \in {"while", "poll", "distilling", "summarizing", "check", "sleep", "finally"}
          => /\ ObserverSkill \in DOMAIN pidFiles
             /\ pidFiles[ObserverSkill] = <<ObserverPid>>
    /\ o_pc = "exited" => ObserverSkill \notin DOMAIN pidFiles

\* the observer polled, an exception of the engine left its loop without any
\* shutdown request, and its PID file is gone
C26_Witness ==
    /\ o_pc = "exited"
    /\ ~shutdown_requested
    /\ submitted # <<>>
    /\ ObserverSkill \notin DOMAIN pidFiles

\* ------------------------------------------------------------------ evaluation claims
\* C27: a tick of the manager sends an evaluation request exactly when the
\* pending buffer with the new messages of the tick holds at least
\* agent_message_threshold messages, no request is sent at any other point, and
\* a sleeping manager holds fewer pending messages than the threshold
C27_EvaluateAtThreshold ==
    /\ [][m_pc # "off" =>
             /\ (m_pc = "poll" /\ m_pc' # "poll") =>
                    /\ m_pc' = "evaluating" <=> Len(m_pending') >= AgentThreshold
                    /\ submitted' # submitted <=> Len(m_pending') >= AgentThreshold
                    /\ m_pc' = "evaluating" => submitted' = Append(submitted, m_pending')
             /\ submitted' # submitted => m_pc = "poll"]_vars
    /\ [](m_pc = "sleep" => Len(m_pending) < AgentThreshold)

\* after an evaluation the manager sleeps with a buffer that is not empty
C27_Witness ==
    /\ m_pc = "sleep"
    /\ m_pending # <<>>
    /\ submitted # <<>>

\* ---------------------------------------------------------------- C28
Listed(list) == {list[i] : i \in DOMAIN list}

\* the loop of the Applying phase a logged call was made in
Phase(c) ==
    IF c.fn = "stop_observer" THEN 3
    ELSE IF c.include_history THEN 1 ELSE 2

\* the calls of the phase are made loop after loop
PhasesInOrder(calls) ==
    \A i, j \in DOMAIN calls : i < j => Phase(calls[i]) <= Phase(calls[j])

\* name is spawned and, later in the same log, its process is sent a stop
SpawnedThenStopped(calls, name) ==
    \E i, j \in DOMAIN calls :
        /\ i < j
        /\ calls[i].fn = "start_observer" /\ calls[i].name = name
        /\ calls[i].ret # None
        /\ calls[j].fn = "stop_observer" /\ calls[j].pid = calls[i].ret

\* C28 as stated: within one Applying phase the new skills are processed before
\* the starts and the starts before the stops; every name listed under NEW or
\* START and also under STOP is spawned and then sent a graceful stop in that
\* phase, and is not in the running set when the phase ends
C28_SpawnedThenStopped ==
    call.fn = "apply" =>
        /\ PhasesInOrder(call.res.calls)
        /\ \A name \in (Listed(call.arg.decision.new) \cup Listed(call.arg.decision.start))
                         \cap Listed(call.arg.decision.stop) :
               /\ SpawnedThenStopped(call.res.calls, name)
               /\ name \notin DOMAIN call.res.running

\* C28 amended: within one Applying phase the new skills are processed before
\* the starts and the starts before the stops; no name listed under STOP is in
\* the running set when the phase ends; every observer the phase launched for a
\* name listed under STOP is sent a graceful stop later in the same phase; and
\* a name listed under STOP that is not running when the phase begins gets a
\* launch attempt when it is listed under NEW, or under START and is an
\* existing skill
C28_PhaseOrder ==
    call.fn = "apply" =>
        LET calls == call.res.calls
            decision == call.arg.decision
            w == call.arg.w
        IN /\ PhasesInOrder(calls)
           /\ \A name \in Listed(decision.stop) : name \notin DOMAIN call.res.running
           /\ \A i \in DOMAIN calls :
                  (/\ calls[i].fn = "start_observer"
                   /\ calls[i].ret # None
                   /\ calls[i].name \in Listed(decision.stop))
                  => \E j \in DOMAIN calls :
                         /\ i < j
                         /\ calls[j].fn = "stop_observer"
                         /\ calls[j].pid = calls[i].ret
           /\ \A name \in Listed(decision.stop) \ DOMAIN w.running :
                  (\/ name \in Listed(decision.new)
                   \/ name \in Listed(decision.start) \cap w.existing_skills)
                  => \E i \in DOMAIN calls :
                         calls[i].fn = "start_observer" /\ calls[i].name = name

\* a phase that launches an observer for a name listed under NEW and STOP and
\* stops it after the observer that was running when the phase began
C28_Witness ==
    /\ call.fn = "apply"
    /\ call.arg.decision = [new |-> <<"s1">>, start |-> <<"s2">>, stop |-> <<"s2", "s1">>]
    /\ SpawnedThenStopped(call.res.calls, "s1")
    /\ DOMAIN call.arg.w.running = {"s2"}
    /\ call.res.running = <<>>
    /\ Len(call.res.calls) = 3

\* ---------------------------------------------------------------- C29
\* the calls of start_observer for name, in order
CallsFor(calls, name) ==
    {i \in DOMAIN calls : calls[i].fn = "start_observer" /\ calls[i].name = name}

\* C29: for each proposed new skill whose name is not in the running set the
\* manager calls start_observer with include_history=True and records the pid
\* as running when one is returned; for a proposed new skill whose name is in
\* the running set, from the start or since an earlier entry of the same
\* list, it spawns nothing
C29_NewSkills ==
    call.fn = "apply_new" =>
        LET calls == call.res.calls
            w == call.arg.w
        IN /\ \A i \in DOMAIN calls :
                  /\ calls[i].fn = "start_observer"
                  /\ calls[i].include_history
                  /\ calls[i].name \in Listed(call.arg.new) \ DOMAIN w.running
                  /\ calls[i].ret # None =>
                         /\ calls[i].name \in DOMAIN call.res.running
                         /\ call.res.running[calls[i].name] = calls[i].ret
                         /\ \A j \in CallsFor(calls, calls[i].name) : j <= i
           /\ \A name \in Listed(call.arg.new) \ DOMAIN w.running :
                  CallsFor(calls, name) # {}
           /\ \A name \in DOMAIN w.running :
                  /\ name \in DOMAIN call.res.running
                  /\ call.res.running[name] = w.running[name]
           /\ \A name \in DOMAIN call.res.running \ DOMAIN w.running :
                  \E i \in CallsFor(calls, name) : calls[i].ret # None

\* NEW lists a running skill and a skill that is not running: one observer is
\* launched, with the history, and both are running afterwards
C29_Witness ==
    /\ call.fn = "apply_new"
    /\ call.arg.new = <<"s1", "s2">>
    /\ DOMAIN call.arg.w.running = {"s1"}
    /\ Len(call.res.calls) = 1
    /\ call.res.calls[1].name = "s2"
    /\ call.res.calls[1].include_history
    /\ call.res.running = [n \in {"s1", "s2"} |-> IF n = "s1" THEN 1 ELSE 2]

\* ---------------------------------------------------------------- C30
\* C30: for each skill a decision proposes to start: nothing is spawned when it
\* is in the running set; start_observer is called, without include_history,
\* when it is an existing skill that is not running, and the name is running
\* from then on when a pid is returned; a name that is neither running nor an
\* existing skill is ignored
C30_StartSkills ==
    call.fn = "apply_start" =>
        LET calls == call.res.calls
            w == call.arg.w
            startable == (Listed(call.arg.start) \cap w.existing_skills)
                             \ DOMAIN w.running
        IN /\ \A i \in DOMAIN calls :
                  /\ calls[i].fn = "start_observer"
                  /\ ~calls[i].include_history
                  /\ calls[i].name \in startable
                  /\ calls[i].ret # None =>
                         /\ calls[i].name \in DOMAIN call.res.running
                         /\ call.res.running[calls[i].name] = calls[i].ret
                         /\ \A j \in CallsFor(calls, calls[i].name) : j <= i
           /\ \A name \in startable : CallsFor(calls, name) # {}
           /\ \A name \in Listed(call.arg.start) \ startable :
                  CallsFor(calls, name) = {}
           /\ \A name \in DOMAIN w.running :
                  /\ name \in DOMAIN call.res.running
                  /\ call.res.running[name] = w.running[name]
           /\ DOMAIN call.res.running \subseteq DOMAIN w.running \cup startable

\* START lists a name that is neither running nor an existing skill, and an
\* existing skill that is not running: one observer is launched, for the
\* second, without the history
C30_Witness ==
    /\ call.fn = "apply_start"
    /\ call.arg.start = <<"s1", "s2">>
    /\ call.arg.w.existing_skills = {"s2"}
    /\ call.arg.w.running = <<>>
    /\ Len(call.res.calls) = 1
    /\ call.res.calls[1].name = "s2"
    /\ ~call.res.calls[1].include_history
    /\ call.res.running = [n \in {"s2"} |-> 1]

\* ---------------------------------------------------------------- C31
\* the graceful stops sent to pid
StopsTo(calls, pid) ==
    {i \in DOMAIN calls : calls[i].fn = "stop_observer" /\ calls[i].pid = pid}

\* C31: for each skill a decision proposes to stop: when it is in the running
\* set exactly one graceful stop is sent to its pid and the skill leaves the
\* running set whether or not stop_observer returned True; when it is not in
\* the running set no signal is sent
C31_StopSkills ==
    call.fn = "apply_stop" =>
        LET calls == call.res.calls
            w == call.arg.w
            stopped == Listed(call.arg.stop) \cap DOMAIN w.running
        IN /\ \A name \in stopped :
                  /\ Cardinality(StopsTo(calls, w.running[name])) = 1
                  /\ name \notin DOMAIN call.res.running
           /\ Len(calls) = Cardinality(stopped)
           /\ Len(call.res.sent) = Cardinality(stopped)
           /\ \A i \in DOMAIN calls :
                  /\ calls[i].fn = "stop_observer"
                  /\ \E name \in stopped : calls[i].pid = w.running[name]
           /\ DOMAIN call.res.running = DOMAIN w.running \ stopped
           /\ \A name \in DOMAIN call.res.running :
                  call.res.running[name] = w.running[name]

\* STOP lists twice a running skill whose process the manager may not signal:
\* one stop is sent, it returns False, and the skill is dropped all the same
C31_Witness ==
    /\ call.fn = "apply_stop"
    /\ call.arg.stop = <<"s1", "s1">>
    /\ DOMAIN call.arg.w.running = {"s1"}
    /\ Len(call.res.calls) = 1
    /\ call.res.calls[1].ret = FALSE
    /\ call.res.running = <<>>

\* ---------------------------------------------------------------- C32
\* C32: a tick of the observer sends a distillation request exactly when the
\* buffer, with the messages of this tick, has reached message_threshold, or
\* shutdown is requested and the buffer is not empty; the request carries the
\* buffer, which is never empty; requests are sent nowhere else; and while the
\* observer sleeps the buffer is below the threshold
C32_DistillAtThreshold ==
    /\ [][o_pc # "off" =>
             /\ (o_pc = "poll" /\ o_pc' # "poll") =>
                    /\ o_pc' = "distilling" <=>
                           \/ Len(pending_messages') >= MessageThreshold
                           \/ shutdown_requested /\ pending_messages' # <<>>
                    /\ submitted' # submitted <=> o_pc' = "distilling"
                    /\ o_pc' = "distilling" =>
                           /\ submitted' = Append(submitted, pending_messages')
                           /\ pending_messages' # <<>>
             /\ submitted' # submitted => o_pc = "poll"]_vars
    /\ [](o_pc = "sleep" => Len(pending_messages) < MessageThreshold)
    /\ [](o_pc = "distilling" => pending_messages # <<>>)

\* the final distillation of a buffer that is below the threshold
C32_Witness ==
    /\ o_pc = "distilling"
    /\ shutdown_requested
    /\ pending_messages # <<>>
    /\ Len(pending_messages) < MessageThreshold
    /\ submitted[Len(submitted)] = pending_messages

\* ---------------------------------------------------------------- C33
\* the engine answered a distillation request in this step
DistillationAnswered ==
    o_pc = "distilling" /\ o_pc' \in {"summarizing", "check"}

\* C33: a distillation whose parsed details are not empty leaves details.md
\* holding them, every resource block written, and distill_count one higher; a
\* distillation without details (NO_UPDATE, no response, resource blocks only)
\* leaves details.md, the resource files, index.md and distill_count as they
\* were
C33_DistillationEffect ==
    [][DistillationAnswered =>
          \/ /\ distill_count' = distill_count + 1
             /\ lastDetails' # <<>>
             /\ DetailsName \in DOMAIN skillDir'
             /\ skillDir'[DetailsName] = lastDetails'
             /\ \A name \in writtenResources' \ writtenResources :
                    InBaseDir(resource_path(name)) => name \in DOMAIN skillDir'
          \/ /\ distill_count' = distill_count
             /\ skillDir' = skillDir
             /\ writtenResources' = writtenResources]_vars

\* ---------------------------------------------------------------- C34
\* this step changes what index.md holds, or creates it
IndexWritten ==
    /\ IndexName \in DOMAIN skillDir'
    /\ IndexName \in DOMAIN skillDir => skillDir'[IndexName] # skillDir[IndexName]

\* a summarization request is sent only right after a successful distillation,
\* and then exactly when distill_count is a multiple of 3 or shutdown is
\* requested
SummarizeAfterDistillation ==
    /\ (o_pc # "summarizing" /\ o_pc' = "summarizing") =>
           DistillationAnswered /\ distill_count' = distill_count + 1
    /\ (DistillationAnswered /\ distill_count' = distill_count + 1) =>
           (o_pc' = "summarizing" <=>
                (distill_count' % 3 = 0 \/ shutdown_requested))

\* C34: a summarization request is sent only right after a successful
\* distillation, and then exactly when the successful distillations so far are
\* a multiple of 3 or shutdown has been requested; index.md is written only
\* when that request returns a response that is not empty
C34_Summarization ==
    [][o_pc # "off" =>
          /\ SummarizeAfterDistillation
          /\ IndexWritten =>
                 /\ o_pc = "summarizing" /\ o_pc' = "check"
                 /\ lastSummary' # <<>>]_vars

\* ---------------------------------------------------------------- C35
\* C35: an observer that exits on shutdown has requested a summary of the
\* details it last wrote: it does not exit with details written since the last
\* summarization request
C35_SummaryBeforeExit ==
    (o_pc = "exited" /\ shutdown_requested) => ~unsummarized

\* ---------------------------------------------------------------- C36
\* the complete records of the tracked transcript that no update() has read
Unread ==
    IF current_file = NoFile THEN {}
    ELSE Range(RecordsBetween(current_file, file_position, Len(files[current_file])))

\* a tick's update() and extend() in this step
Polled ==
    \/ o_pc = "poll" /\ o_pc' # "poll"
    \/ m_pc = "poll" /\ m_pc' # "poll"

\* the buffer of the loop that runs
Buffer == IF m_pc = "off" THEN pending_messages ELSE m_pending

\* C36: records appended while an engine call is in flight are not lost by the
\* clear that follows the call: the tracker does not move during the call or
\* at the clear, the records stay unread until the next update(), which
\* returns them, and they enter the buffer of that tick and from there the
\* next batch (manager and observer alike)
C36_InFlightRecordsKept ==
    /\ [][/\ InCall => UNCHANGED trkVars
          /\ Polled => inflight \subseteq Range(epochReturned')
          /\ Polled => inflight \cap Unread \subseteq Range(Buffer')]_vars
    /\ [](\A id \in inflight :
              \/ id \in Unread
              \/ /\ id \in Range(epochReturned)
                 /\ \/ id \in Range(Buffer)
                    \/ \E i \in DOMAIN submitted : id \in Range(submitted[i]))

\* the manager has sent a second batch, which holds a record that was
\* appended while the first evaluation was in flight
C36_Witness ==
    /\ m_pc = "evaluating"
    /\ Len(submitted) = 2
    /\ inflight \cap Range(submitted[2]) # {}
    /\ inflight \cap Range(submitted[1]) = {}

\* ---------------------------------------------------------------- C37
\* the calls of start_observer for name that returned a pid
Spawned(calls, name) == {i \in CallsFor(calls, name) : calls[i].ret # None}

\* C37: within one Applying phase at most one call of start_observer per skill
\* name returns a pid, whatever the decision lists: a name repeated under NEW,
\* repeated under START, or listed under both
C37_OneSpawnPerName ==
    call.fn = "apply" =>
        \A name \in Skills : Cardinality(Spawned(call.res.calls, name)) <= 1

\* a decision that lists s1 twice under NEW and twice under START, s1 being an
\* existing skill that is not running: one observer is launched
C37_Witness ==
    /\ call.fn = "apply"
    /\ call.arg.decision.new = <<"s1", "s1">>
    /\ call.arg.decision.start = <<"s1", "s1">>
    /\ call.arg.decision.stop = <<>>
    /\ "s1" \in call.arg.w.existing_skills
    /\ call.arg.w.running = <<>>
    /\ Cardinality(Spawned(call.res.calls, "s1")) = 1
    /\ Len(call.res.calls) = 1

\* ---------------------------------------------------------------- C38
RECURSIVE TotalChars(_)
TotalChars(msgs) ==
    IF msgs = <<>> THEN 0 ELSE ContentLen(msgs[1].content) + TotalChars(Tail(msgs))

\* out is msg with a content of more than 2000 characters cut to its first
\* 2000 characters and "...", any other content as it is
IsCutOf(out, msg) ==
    /\ out.role = msg.role
    /\ out.content.id = msg.content.id
    /\ IF msg.content.chars > PerMessageCap
       THEN /\ out.content.chars = PerMessageCap
            /\ out.content.ellipsis
            /\ ContentLen(out.content) = PerMessageCap + EllipsisLen
       ELSE out.content = msg.content

\* C38: truncate_messages returns a contiguous suffix of its input in the
\* original order, every content longer than 2000 characters cut to its first
\* 2000 characters plus "...", the contents of the result being at most
\* max_chars characters in total; the list given and its records are as before
C38_TruncateMessages ==
    call.fn = "truncate_messages" =>
        LET messages == call.arg.messages
            result == call.res.result
            dropped == Len(messages) - Len(result)
        IN /\ dropped >= 0
           /\ \A j \in DOMAIN result : IsCutOf(result[j], messages[dropped + j])
           /\ TotalChars(result) <= call.arg.max_chars
           /\ call.res.messages = messages

\* three messages, the oldest dropped, the second cut, the budget used up
C38_Witness ==
    /\ call.fn = "truncate_messages"
    /\ Len(call.arg.messages) = 3
    /\ Len(call.res.result) = 2
    /\ call.arg.messages[1].content.chars = 1
    /\ call.arg.messages[2].content.chars = 2 * PerMessageCap
    /\ call.res.result[1].content.ellipsis
    /\ call.res.result[2] = call.arg.messages[3]
    /\ TotalChars(call.res.result) = call.arg.max_chars

====
